---- MODULE Spec2Model ----
(***************************************************************************)
(* A model of flo_rope: the attributed rope (src/rope/attributed_rope.rs), *)
(* its cell iterator, and the change tracker built on it                   *)
(* (src/stream_rope/pull_rope.rs).                                         *)
(*                                                                         *)
(* Representation.                                                         *)
(*  - A RopeNodeIndex is the 0-based position in the arena, as in the      *)
(*    source; the arena `nodes` is a TLA+ sequence, so node i is           *)
(*    nodes[i + 1].  Option::None is written None (-1).                    *)
(*  - A usize that can wrap (a Branch's length, which replace_cells        *)
(*    updates with `(length as i64 + diff) as usize`) is kept as the       *)
(*    two's-complement reading of its 64 bits: the integer v stands for    *)
(*    the usize v mod 2^64.  Wrapping + and - are then plain + and -, the  *)
(*    `as` casts are the identity, and the unsigned comparisons of the     *)
(*    source are ULt / ULe below.  Nothing is narrowed: the model agrees   *)
(*    with 64-bit arithmetic as long as the magnitudes stay small.         *)
(*  - A rope carries `halt`: "none", "panic" (the call panicked in every   *)
(*    build profile) or "hang" (the call never returns), and `dbg`: TRUE   *)
(*    once a debug_assert! or a debug-profile overflow check has failed;   *)
(*    the other fields then follow the release profile.                    *)
(***************************************************************************)
EXTENDS Integers, Sequences, FiniteSets, TLC

None == -1

SPLIT_LENGTH == 32

-----------------------------------------------------------------------------
(* usize helpers *)

ULt(a, b) == IF (a >= 0) = (b >= 0) THEN a < b ELSE a >= 0

ULe(a, b) == a = b \/ ULt(a, b)

UMin(a, b) == IF ULe(a, b) THEN a ELSE b

UMax(a, b) == IF ULe(a, b) THEN b ELSE a

\* Range<usize>::len()
RangeLen(start, end) == IF ULt(start, end) THEN end - start ELSE 0

\* The debug-profile overflow checks of usize + and -
UAddOverflows(a, b) ==
    IF a >= 0 /\ b >= 0 THEN FALSE ELSE IF a < 0 /\ b < 0 THEN TRUE ELSE a + b >= 0

USubUnderflows(a, b) == ULt(a, b)

-----------------------------------------------------------------------------
(* RopeNode / RopeBranch *)

EmptyNode ==
    [kind |-> "Empty", parent |-> None, cells |-> <<>>, attr |-> 0,
     left |-> None, right |-> None, length |-> 0]

\* A leaf that does not record its parent
OrphanLeaf(parent, cells, attr) ==
    [kind |-> "Leaf", parent |-> None, cells |-> cells, attr |-> attr,
     left |-> None, right |-> None, length |-> 0]

LeafNode(parent, cells, attr) ==
    [kind |-> "Leaf", parent |-> parent, cells |-> cells, attr |-> attr,
     left |-> None, right |-> None, length |-> 0]

\* A branch that does not record its parent
RootBranch(left, right, length, parent) ==
    [kind |-> "Branch", parent |-> None, cells |-> <<>>, attr |-> 0,
     left |-> left, right |-> right, length |-> length]

BranchNode(left, right, length, parent) ==
    [kind |-> "Branch", parent |-> parent, cells |-> <<>>, attr |-> 0,
     left |-> left, right |-> right, length |-> length]

\* RopeNode::len
node_len(node) ==
    CASE node.kind = "Empty"  -> 0
      [] node.kind = "Leaf"   -> Len(node.cells)
      [] node.kind = "Branch" -> node.length

\* RopeNode::parent (used by next_leaf_to_the_right)
node_parent(node) == IF node.kind = "Empty" THEN None ELSE node.parent

-----------------------------------------------------------------------------
(* AttributedRope *)

NodeAt(rope, idx) == rope.nodes[idx + 1]

\* AttributedRope::from (AttributedRope::new is RopeFrom(<<>>)); the default
\* attribute is 0
RopeFrom(cells) ==
    [nodes |-> <<LeafNode(None, cells, 0)>>, root_node_idx |-> 0,
     free_nodes |-> <<>>, halt |-> "none", dbg |-> FALSE]

\* A store that writes to the last free slot and leaves it on the list
store_in_listed_slot(rope, node) ==
    IF Len(rope.free_nodes) > 0
    THEN [rope |-> [rope EXCEPT !.nodes[rope.free_nodes[Len(rope.free_nodes)] + 1] = node],
          idx  |-> rope.free_nodes[Len(rope.free_nodes)]]
    ELSE [rope |-> [rope EXCEPT !.nodes = Append(@, node)],
          idx  |-> Len(rope.nodes)]

store_new_node(rope, node) ==
    IF Len(rope.free_nodes) > 0
    THEN LET free_node == rope.free_nodes[Len(rope.free_nodes)]
         IN  [rope |-> [rope EXCEPT !.nodes[free_node + 1] = node,
                                    !.free_nodes = SubSeq(@, 1, Len(@) - 1)],
              idx  |-> free_node]
    ELSE [rope |-> [rope EXCEPT !.nodes = Append(@, node)],
          idx  |-> Len(rope.nodes)]

\* Rope::len
rope_len(rope) == node_len(NodeAt(rope, rope.root_node_idx))

\* split: returns the rope and the index of the left-hand leaf.
\* cells.drain(split_index..cells.len()) panics when split_index > cells.len().
split(rope, leaf_node_idx, split_index) ==
    LET leaf_node == NodeAt(rope, leaf_node_idx) IN
    IF rope.halt # "none" THEN [rope |-> rope, idx |-> leaf_node_idx]
    ELSE IF leaf_node.kind # "Leaf"
    THEN [rope |-> [rope EXCEPT !.dbg = TRUE], idx |-> leaf_node_idx]
    ELSE IF ULt(Len(leaf_node.cells), split_index)
    THEN [rope |-> [rope EXCEPT !.halt = "panic"], idx |-> leaf_node_idx]
    ELSE
        LET cells       == leaf_node.cells
            left_cells  == SubSeq(cells, 1, split_index)
            right_cells == SubSeq(cells, split_index + 1, Len(cells))
            length      == Len(left_cells) + Len(right_cells)
            taken       == [rope EXCEPT !.nodes[leaf_node_idx + 1] = EmptyNode]
            s1          == store_new_node(taken, LeafNode(leaf_node_idx, left_cells, leaf_node.attr))
            s2          == store_new_node(s1.rope, LeafNode(leaf_node_idx, right_cells, leaf_node.attr))
        IN  [rope |-> [s2.rope EXCEPT !.nodes[leaf_node_idx + 1] =
                            BranchNode(s1.idx, s2.idx, length, leaf_node.parent)],
             idx  |-> s1.idx]

\* find_leaf: [offset, idx, dbg]; dbg: a debug-profile build fails the overflow
\* check of idx - offset or of offset += left_len
RECURSIVE find_leaf_from(_, _, _, _)
find_leaf_from(rope, idx, current_node, offset) ==
    LET node == NodeAt(rope, current_node) IN
    IF node.kind # "Branch" THEN [offset |-> offset, idx |-> current_node, dbg |-> FALSE]
    ELSE LET left_len == node_len(NodeAt(rope, node.left)) IN
         IF ULe(idx - offset, left_len)
         THEN [find_leaf_from(rope, idx, node.left, offset)
                  EXCEPT !.dbg = @ \/ USubUnderflows(idx, offset)]
         ELSE [find_leaf_from(rope, idx, node.right, offset + left_len)
                  EXCEPT !.dbg = @ \/ USubUnderflows(idx, offset)
                                   \/ UAddOverflows(offset, left_len)]

find_leaf(rope, idx) == find_leaf_from(rope, idx, rope.root_node_idx, 0)

\* next_leaf_to_the_right, first loop: climb until the node is a left child:
\* [idx, dbg], idx the right sibling found, or None; dbg: a debug_assert! of the
\* loop fails (the parent is not a Branch, or the node is neither of its children)
RECURSIVE climb_to_right(_, _, _)
climb_to_right(rope, left_node_idx, maybe_parent_node_idx) ==
    IF maybe_parent_node_idx = None THEN [idx |-> None, dbg |-> FALSE]
    ELSE LET parent == NodeAt(rope, maybe_parent_node_idx) IN
         IF parent.kind # "Branch" THEN [idx |-> None, dbg |-> TRUE]
         ELSE IF left_node_idx = parent.left THEN [idx |-> parent.right, dbg |-> FALSE]
         ELSE [climb_to_right(rope, maybe_parent_node_idx, parent.parent)
                  EXCEPT !.dbg = @ \/ left_node_idx # parent.right]

\* A descent that stops at the node it starts from
stop_at_sibling(rope, next_node) == next_node

\* next_leaf_to_the_right, second loop: descend to the left
RECURSIVE descend_left(_, _)
descend_left(rope, next_node) ==
    LET node == NodeAt(rope, next_node) IN
    IF node.kind = "Branch" THEN descend_left(rope, node.left) ELSE next_node

\* next_leaf_to_the_right, after the first loop: [idx, dbg], idx the leaf the
\* second loop ends on, or None when the climb found no sibling
descend_from(rope, right_node) ==
    [idx |-> IF right_node.idx = None THEN None ELSE descend_left(rope, right_node.idx),
     dbg |-> right_node.dbg]

\* next_leaf_to_the_right: [idx, dbg], idx the leaf found, or None
next_leaf_to_the_right(rope, node_idx) ==
    descend_from(rope, climb_to_right(rope, node_idx, node_parent(NodeAt(rope, node_idx))))

\* replace_cells, the loop over the branches above the leaf:
\* branch.length = ((branch.length as i64) + length_diff) as usize
RECURSIVE update_branch_lengths(_, _, _)
update_branch_lengths(rope, parent_idx, length_diff) ==
    IF parent_idx = None THEN rope
    ELSE LET branch == NodeAt(rope, parent_idx) IN
         IF branch.kind # "Branch" THEN [rope EXCEPT !.dbg = TRUE]
         ELSE update_branch_lengths(
                  [rope EXCEPT !.nodes[parent_idx + 1].length = @ + length_diff],
                  branch.parent, length_diff)

\* The length difference replace_cells applies to the branches above the leaf:
\* (range.len() as i64) - (cells.len() as i64), taken before the splice, where
\* `cells` is the leaf's cell vector and `range` the clamped range
replace_cells_length_diff(cells, start, end, new_cells) ==
    RangeLen(start, end) - Len(cells)

\* replace_cells; Vec::splice panics when the range's start is above its end
replace_cells(rope, leaf_node_idx, range_start, range_end, new_cells) ==
    LET node == NodeAt(rope, leaf_node_idx) IN
    IF rope.halt # "none" THEN rope
    ELSE IF node.kind # "Leaf" THEN [rope EXCEPT !.dbg = TRUE]
    ELSE
        LET cells       == node.cells
            start       == IF ULt(Len(cells), range_start) THEN Len(cells) ELSE range_start
            end         == IF ULt(Len(cells), range_end) THEN Len(cells) ELSE range_end
            length_diff == replace_cells_length_diff(cells, start, end, new_cells)
        IN  IF start > end THEN [rope EXCEPT !.halt = "panic"]
            ELSE update_branch_lengths(
                     [rope EXCEPT !.nodes[leaf_node_idx + 1].cells =
                          SubSeq(cells, 1, start) \o new_cells \o SubSeq(cells, end + 1, Len(cells))],
                     node.parent, length_diff)

\* join_to_right, once the leaf is taken out of the tree: remove its parent,
\* put the parent's other child in the parent's place, free the two nodes and
\* move the leaf's cells to the start of the leaf on its right
rejoin(taken, leaf_node, leaf_node_idx, right_node_idx) ==
    LET parent_node_idx == leaf_node.parent
        parent_node     == NodeAt(taken, parent_node_idx)
        is_left              == parent_node.left = leaf_node_idx
        remaining_node_idx   == IF is_left THEN parent_node.right ELSE parent_node.left
        grandparent_node_idx == parent_node.parent
        \* Change the grandparent to point at the remaining node
        point_grandparent(a1) ==
            IF grandparent_node_idx = None
            THEN [a1 EXCEPT !.root_node_idx = remaining_node_idx]
            ELSE LET gp == NodeAt(a1, grandparent_node_idx) IN
                 IF gp.kind # "Branch" THEN [a1 EXCEPT !.halt = "panic"]
                 ELSE IF gp.left = parent_node_idx
                 THEN [a1 EXCEPT !.nodes[grandparent_node_idx + 1].left =
                           remaining_node_idx]
                 ELSE [a1 EXCEPT !.nodes[grandparent_node_idx + 1].right =
                           remaining_node_idx,
                                 !.dbg = @ \/ gp.right # parent_node_idx]
        \* Change the remaining node so its parent is the grandparent node
        reparent_remaining(a2) ==
            IF a2.halt # "none" THEN a2
            ELSE IF NodeAt(a2, remaining_node_idx).kind = "Empty"
            THEN [a2 EXCEPT !.halt = "panic"]
            ELSE [a2 EXCEPT !.nodes[remaining_node_idx + 1].parent = grandparent_node_idx]
        \* The parent and leaf node are no longer referenced
        free_both(a3) ==
            IF a3.halt # "none" THEN a3
            ELSE [a3 EXCEPT !.free_nodes = Append(Append(@, leaf_node_idx), parent_node_idx)]
        \* Join the text if the original leaf node is non-empty
        join_text(a4) ==
            IF a4.halt # "none" \/ Len(leaf_node.cells) = 0 THEN a4
            ELSE IF NodeAt(a4, right_node_idx).kind # "Leaf"
            THEN [a4 EXCEPT !.halt = "panic"]
            ELSE [a4 EXCEPT !.nodes[right_node_idx + 1].cells = leaf_node.cells \o @]
    IN  IF parent_node.kind # "Branch"
        THEN [taken EXCEPT !.nodes[parent_node_idx + 1] = EmptyNode, !.halt = "panic"]
        ELSE join_text(free_both(reparent_remaining(point_grandparent(
                 [taken EXCEPT !.nodes[parent_node_idx + 1] = EmptyNode,
                               !.dbg = @ \/ ~(is_left \/ parent_node.right =
                                                             leaf_node_idx)]))))

\* join_to_right, once next_leaf_to_the_right has looked for the leaf to join to
join_to(rope, leaf_node_idx, right_node) ==
    LET leaf_node == NodeAt(rope, leaf_node_idx)
        looked    == [rope EXCEPT !.dbg = @ \/ right_node.dbg]
    IN  IF right_node.idx = None THEN looked
        ELSE IF leaf_node.kind # "Leaf" THEN [looked EXCEPT !.dbg = TRUE]
        ELSE IF leaf_node.parent = None
        THEN [looked EXCEPT !.nodes[leaf_node_idx + 1] = EmptyNode]
        ELSE rejoin([looked EXCEPT !.nodes[leaf_node_idx + 1] = EmptyNode],
                    leaf_node, leaf_node_idx, right_node.idx)

\* join_to_right
join_to_right(rope, leaf_node_idx) ==
    IF rope.halt # "none" THEN rope
    ELSE join_to(rope, leaf_node_idx, next_leaf_to_the_right(rope, leaf_node_idx))

RECURSIVE remove_to_right(_, _, _, _)
\* replace_leaf, the loop that removes cells from the leaves to the right, once
\* the cells are removed from a leaf: add the leaf to the list of empty nodes if
\* it is empty, and move on
remove_more(removed, next_node_idx, remaining_to_right, empty_nodes) ==
    remove_to_right(removed, next_node_idx, remaining_to_right,
                    IF node_len(NodeAt(removed, next_node_idx)) = 0
                    THEN Append(empty_nodes, next_node_idx) ELSE empty_nodes)

\* replace_leaf, the loop that removes cells from the leaves to the right, once
\* next_leaf_to_the_right has looked for the next node along
remove_from(rope, remaining_to_right, empty_nodes, next_node) ==
    LET next_node_idx == next_node.idx
        looked        == [rope EXCEPT !.dbg = @ \/ next_node.dbg]
        to_remove     == UMin(remaining_to_right, node_len(NodeAt(rope, next_node_idx)))
    IN  IF next_node_idx = None THEN [rope |-> looked, empty_nodes |-> empty_nodes]
        ELSE remove_more(replace_cells(looked, next_node_idx, 0, to_remove, <<>>),
                         next_node_idx, remaining_to_right - to_remove, empty_nodes)

\* replace_leaf, the loop that removes cells from the leaves to the right:
\* [rope, empty_nodes]
remove_to_right(rope, last_node_idx, remaining_to_right, empty_nodes) ==
    IF remaining_to_right = 0 \/ rope.halt # "none"
    THEN [rope |-> rope, empty_nodes |-> empty_nodes]
    ELSE remove_from(rope, remaining_to_right, empty_nodes,
                     next_leaf_to_the_right(rope, last_node_idx))

\* empty_nodes.into_iter().for_each(|empty_cell_idx| self.join_to_right(empty_cell_idx))
RECURSIVE join_all_to_right(_, _)
join_all_to_right(rope, empty_nodes) ==
    IF empty_nodes = <<>> THEN rope
    ELSE join_all_to_right(join_to_right(rope, Head(empty_nodes)), Tail(empty_nodes))

\* replace_leaf: join the empty nodes the removal loop listed
join_empty_nodes(removed) == join_all_to_right(removed.rope, removed.empty_nodes)

\* replace_leaf's test for a range that overruns the leaf:
\* leaf_pos + absolute_range.len() > leaf_end
overruns_leaf(leaf_pos, range_len, leaf_offset, leaf_len) ==
    ULt(leaf_offset + leaf_len, leaf_pos + range_len)

\* replace_leaf, once the cells are replaced within the leaf: remove the rest of
\* a range that overruns the leaf from the leaves to its right, and join any
\* empty nodes that are left
remove_overrun(replaced, leaf_node_idx, leaf_pos, range_len, leaf_offset, leaf_len) ==
    IF overruns_leaf(leaf_pos, range_len, leaf_offset, leaf_len)
    THEN join_empty_nodes(
             remove_to_right(
                 \* The debug-profile overflow checks of
                 \* absolute_range.len() - (leaf_len - leaf_pos)
                 [replaced EXCEPT !.dbg = @ \/ ULt(leaf_len, leaf_pos)
                                            \/ ULt(range_len, leaf_len - leaf_pos)],
                 leaf_node_idx, range_len - (leaf_len - leaf_pos), <<>>))
    ELSE replaced

\* replace_leaf, its last step: join the leaf to the one on its right if it has
\* been left empty
join_if_empty(overrun, leaf_node_idx) ==
    IF overrun.halt = "none" /\ node_len(NodeAt(overrun, leaf_node_idx)) = 0
    THEN join_to_right(overrun, leaf_node_idx)
    ELSE overrun

\* replace_leaf
replace_leaf(rope, range_start, range_end, leaf_offset, leaf_node_idx, new_cells) ==
    LET leaf_len  == node_len(NodeAt(rope, leaf_node_idx))
        leaf_pos  == range_start - leaf_offset
        range_len == RangeLen(range_start, range_end)
        \* The debug-profile overflow checks of absolute_range.start - leaf_offset,
        \* leaf_offset + leaf_len, absolute_range.end - leaf_offset and
        \* leaf_pos + absolute_range.len()
        overflow  == \/ USubUnderflows(range_start, leaf_offset)
                     \/ UAddOverflows(leaf_offset, leaf_len)
                     \/ USubUnderflows(range_end, leaf_offset)
                     \/ UAddOverflows(leaf_pos, range_len)
    IN  IF rope.halt # "none" THEN rope
        ELSE join_if_empty(
                 remove_overrun(
                     replace_cells([rope EXCEPT !.dbg = @ \/ overflow], leaf_node_idx,
                                   range_start - leaf_offset, range_end - leaf_offset,
                                   new_cells),
                     leaf_node_idx, leaf_pos, range_len, leaf_offset, leaf_len),
                 leaf_node_idx)

\* AttributedRopeIterator::next, collected: [cells, dbg, sound], the cells the
\* iterator yields; dbg: a debug-profile build panics on the way (the iterator
\* is on a node that is not a leaf, or next_leaf_to_the_right fails a
\* debug_assert!); sound: the number of cells yielded before that call of next.
\* The calls of next that stay in one leaf are taken together: they yield the
\* leaf's cells from node_offset on, one each, until remaining_cells is 0 or
\* node_offset is the leaf's length
RECURSIVE iterate_cells(_, _, _, _)
iterate_cells(rope, node_idx, node_offset, remaining_cells) ==
    LET node == NodeAt(rope, node_idx)
        \* The number of cells yielded before the iterator leaves the leaf
        yielded == UMin(remaining_cells, Len(node.cells) - node_offset)
        \* Move to the leaf next_leaf_to_the_right found; a call of next that
        \* fails a debug_assert! yields nothing in that build
        move_to(next_node) ==
            IF next_node.idx = None
            THEN [cells |-> <<>>, dbg |-> next_node.dbg, sound |-> 0]
            ELSE IF next_node.dbg
            THEN [iterate_cells(rope, next_node.idx, 0, remaining_cells)
                     EXCEPT !.dbg = TRUE, !.sound = 0]
            ELSE iterate_cells(rope, next_node.idx, 0, remaining_cells)
    IN
    IF remaining_cells = 0 THEN [cells |-> <<>>, dbg |-> FALSE, sound |-> 0]
    ELSE IF node.kind # "Leaf" THEN [cells |-> <<>>, dbg |-> TRUE, sound |-> 0]
    ELSE IF ULt(node_offset, Len(node.cells))
    THEN LET rest == iterate_cells(rope, node_idx, node_offset + yielded,
                                   remaining_cells - yielded)
         IN  [cells |-> SubSeq(node.cells, node_offset + 1, node_offset + yielded)
                            \o rest.cells,
              dbg   |-> rest.dbg,
              sound |-> yielded + rest.sound]
    ELSE move_to(next_leaf_to_the_right(rope, node_idx))

\* AttributedRope::read_cells, collected: [cells, dbg, sound]; dbg: a
\* debug-profile build panics, in read_cells itself (in find_leaf, at
\* range.start-node_offset or at range.end-range.start: sound is then -1) or
\* in the iterator
read_cells(rope, range_start, range_end) ==
    LET found  == find_leaf(rope, range_start)
        failed == \/ found.dbg
                  \/ USubUnderflows(range_start, found.offset)
                  \/ USubUnderflows(range_end, range_start)
    IN  [iterate_cells(rope, found.idx, range_start - found.offset,
                       range_end - range_start)
            EXCEPT !.dbg = @ \/ failed, !.sound = IF failed THEN -1 ELSE @]

RECURSIVE grow_extent(_, _, _, _)
\* read_attributes, the loop that grows the extent to the right, once
\* next_leaf_to_the_right has looked for the neighbouring node
grow_to(rope, attributes, extent_end, next) ==
    LET next_node == NodeAt(rope, next.idx) IN
    IF next.idx = None THEN [end |-> extent_end, dbg |-> next.dbg]
    ELSE IF next_node.kind # "Leaf" THEN [end |-> extent_end, dbg |-> TRUE]
    ELSE IF next_node.attr # attributes THEN [end |-> extent_end, dbg |-> next.dbg]
    ELSE [grow_extent(rope, next.idx, attributes, extent_end + node_len(next_node))
             EXCEPT !.dbg = @ \/ next.dbg
                              \/ UAddOverflows(extent_end, node_len(next_node))]

\* read_attributes, the loop that grows the extent to the right: [end, dbg], the
\* extent's end; dbg: a debug-profile build panics on the way (the neighbour is
\* not a leaf, extent.end += next_node.len() overflows, or
\* next_leaf_to_the_right fails a debug_assert!)
grow_extent(rope, last_node_idx, attributes, extent_end) ==
    grow_to(rope, attributes, extent_end, next_leaf_to_the_right(rope, last_node_idx))

\* read_attributes, what it returns once the extent has grown
extent_of(found, leaf_node, grown) ==
    [attr  |-> leaf_node.attr,
     start |-> found.offset,
     end   |-> grown.end,
     panic |-> FALSE,
     dbg   |-> found.dbg \/ UAddOverflows(found.offset, node_len(leaf_node)) \/ grown.dbg]

\* read_attributes: [attr, start, end, panic, dbg]; panics when the node found is
\* not a leaf; dbg: a debug-profile build panics (in find_leaf, at
\* leaf_offset+leaf_node.len(), or while the extent grows)
read_attributes(rope, pos) ==
    LET found     == find_leaf(rope, pos)
        leaf_node == NodeAt(rope, found.idx)
    IN  IF leaf_node.kind # "Leaf"
        THEN [attr |-> 0, start |-> 0, end |-> 0, panic |-> TRUE, dbg |-> found.dbg]
        ELSE extent_of(found, leaf_node,
                       grow_extent(rope, found.idx, leaf_node.attr,
                                   found.offset + node_len(leaf_node)))

\* replace, after the split of a long leaf: find the leaf again: [rope, offset, idx]
find_again(halves, range_start, leaf_offset) ==
    LET again == find_leaf(halves, range_start) IN
    [rope   |-> [halves EXCEPT !.dbg = @ \/ again.dbg \/ again.offset # leaf_offset],
     offset |-> again.offset, idx |-> again.idx]

\* replace, its last step: delegate the replacement to replace_leaf
in_leaf(target, range_start, range_end, new_cells) ==
    replace_leaf(target.rope, range_start, range_end, target.offset, target.idx, new_cells)

\* RopeMut::replace for AttributedRope
replace(rope, range_start, range_end, new_cells) ==
    LET found            == find_leaf(rope, range_start)
        position_in_leaf == range_start - found.offset
        leaf_len         == node_len(NodeAt(rope, found.idx))
        \* find_leaf, range.start - leaf_offset and len()-position_in_leaf
        looked           ==
            [rope EXCEPT !.dbg = @ \/ found.dbg \/ USubUnderflows(range_start, found.offset)
                                   \/ USubUnderflows(leaf_len, position_in_leaf)]
    IN  IF rope.halt # "none" THEN rope
        ELSE in_leaf(IF ULt(SPLIT_LENGTH, leaf_len - position_in_leaf)
                     THEN \* Split a long leaf at the position and find the leaf again
                          find_again(split(looked, found.idx, position_in_leaf).rope,
                                     range_start, found.offset)
                     ELSE [rope |-> looked, offset |-> found.offset, idx |-> found.idx],
                     range_start, range_end, new_cells)

\* set_attributes' test for "the attributes end before the end of the current
\* leaf node": remaining_range.end <= leaf_offset + leaf_len
ends_in_leaf(range_end, leaf_offset, leaf_len) == ULe(range_end, leaf_offset + leaf_len)

\* set_attributes, in the branch "this region already has the correct
\* attributes": [start, dbg], the new remaining_range.start; dbg: the addition
\* fails the debug-profile overflow check
skip_matching_leaf(range_start, leaf_offset, leaf_len) ==
    [start |-> range_start + leaf_len, dbg |-> UAddOverflows(range_start, leaf_len)]

\* set_attributes, the loop `while remaining_range.start < remaining_range.end`.
\* An iteration that splits the leaf at its own length leaves remaining_range,
\* leaf_offset and the current leaf's cells and attribute as they were, so the
\* same iteration repeats for ever, each time storing two more nodes: the call
\* never returns (halt = "hang").
RECURSIVE set_attributes_loop(_, _, _, _, _, _)
set_attributes_loop(rope, range_start, range_end, leaf_offset, leaf_node_idx, new_attributes) ==
    LET leaf_node == NodeAt(rope, leaf_node_idx)
        leaf_len  == node_len(leaf_node)
        \* The debug-profile overflow check of leaf_offset + leaf_len
        past_end  == UAddOverflows(leaf_offset, leaf_len)
        \* Move to the leaf next_leaf_to_the_right found, or stop when there is
        \* none; overflow: a debug-profile overflow check made after the leaf is
        \* found has failed
        move_right(moved, next, start, offset, overflow) ==
            IF next.idx = None THEN [moved EXCEPT !.dbg = @ \/ next.dbg]
            ELSE set_attributes_loop([moved EXCEPT !.dbg = @ \/ next.dbg \/ overflow],
                                     start, range_end, offset, next.idx, new_attributes)
    IN
    IF rope.halt # "none" \/ ~ULt(range_start, range_end) THEN rope
    ELSE IF leaf_node.kind # "Leaf" THEN rope
    ELSE IF leaf_node.attr = new_attributes
    THEN \* This region already has the correct attributes, so move to the right
         LET skipped == skip_matching_leaf(range_start, leaf_offset, leaf_len) IN
         move_right([rope EXCEPT !.dbg = @ \/ skipped.dbg \/ past_end],
                    next_leaf_to_the_right(rope, leaf_node_idx),
                    skipped.start, leaf_offset + leaf_len, FALSE)
    ELSE IF ULe(leaf_offset + leaf_len, range_start)
    THEN \* Range starts at the end of the current leaf node, so move to the right
         move_right([rope EXCEPT !.dbg = @ \/ past_end],
                    next_leaf_to_the_right(rope, leaf_node_idx),
                    range_start, leaf_offset + leaf_len, FALSE)
    ELSE IF range_start # leaf_offset
    THEN \* The attributes start in the middle of the current leaf node
         LET split_pos == range_start - leaf_offset
             right_of(halves) ==
                 move_right(halves.rope, next_leaf_to_the_right(halves.rope, halves.idx),
                            range_start, leaf_offset + split_pos,
                            UAddOverflows(leaf_offset, split_pos))
         IN  right_of(split([rope EXCEPT !.dbg = @ \/ past_end
                                     \/ USubUnderflows(range_start, leaf_offset)],
                            leaf_node_idx, split_pos))
    ELSE IF ends_in_leaf(range_end, leaf_offset, leaf_len)
    THEN \* The attributes end before the end of the current leaf node
         LET split_pos == range_end - leaf_offset
             left_of(halves) ==
                 IF split_pos = leaf_len THEN [halves.rope EXCEPT !.halt = "hang"]
                 ELSE set_attributes_loop(halves.rope, range_start, range_end, leaf_offset,
                                          halves.idx, new_attributes)
         IN  left_of(split([rope EXCEPT !.dbg = @ \/ past_end
                                    \/ USubUnderflows(range_end, leaf_offset)],
                           leaf_node_idx, split_pos))
    ELSE \* The entire range is to be set with the new attribute
         LET set_leaf(updated) ==
                 move_right([updated EXCEPT !.dbg = @ \/ past_end
                                               \/ UAddOverflows(range_start, leaf_len)],
                            next_leaf_to_the_right(updated, leaf_node_idx),
                            range_start + leaf_len, leaf_offset + leaf_len, FALSE)
         IN  set_leaf([rope EXCEPT !.nodes[leaf_node_idx + 1].attr = new_attributes])

\* RopeMut::set_attributes for AttributedRope
set_attributes(rope, range_start, range_end, new_attributes) ==
    LET len   == rope_len(rope)
        start == IF ULt(len, range_start) THEN len ELSE range_start
        end   == IF ULt(len, range_end) THEN len ELSE range_end
        found == find_leaf(rope, start)
    IN  IF rope.halt # "none" THEN rope
        ELSE set_attributes_loop([rope EXCEPT !.dbg = @ \/ found.dbg], start, end,
                                 found.offset, found.idx, new_attributes)

\* insert_blank_node, after the split: take the leaf to the right of the split's
\* left-hand side, splitting it when it holds the cells that followed the split
blank_after(lhs, leaf_len, split_index) ==
    LET rhs     == next_leaf_to_the_right(lhs.rope, lhs.idx)
        rhs_idx == rhs.idx
        looked  == [lhs.rope EXCEPT !.dbg = @ \/ rhs.dbg]
    IN  IF lhs.rope.halt # "none" THEN lhs
        ELSE IF rhs_idx = None
        THEN [rope |-> [looked EXCEPT !.halt = "panic"], idx |-> lhs.idx]
        ELSE IF ULe(leaf_len, split_index)
        THEN [rope |-> looked, idx |-> rhs_idx]
        ELSE split(looked, rhs_idx, 0)

\* insert_blank_node: [rope, idx]
insert_blank_node(rope, leaf_node_idx, split_index) ==
    LET leaf_node == NodeAt(rope, leaf_node_idx) IN
    IF split_index = 0 THEN split(rope, leaf_node_idx, 0)
    ELSE IF leaf_node.kind # "Leaf"
    THEN [rope |-> [rope EXCEPT !.halt = "panic"], idx |-> leaf_node_idx]
    ELSE blank_after(split(rope, leaf_node_idx, split_index), Len(leaf_node.cells),
                     split_index)

\* replace_attributes' test for "the entire node is covered":
\* leaf_offset == range.start && leaf_node.len() < range.len()
covers_whole_leaf(leaf_offset, leaf_len, range_start, range_end) ==
    leaf_offset = range_start /\ ULt(leaf_len, RangeLen(range_start, range_end))

\* replace_attributes, in the branch that inserts a blank node: set the blank
\* node's attributes and replace within it
fill_blank(blank, range_start, range_end, new_cells, new_attributes) ==
    replace_leaf(IF blank.rope.halt # "none" THEN blank.rope
                 ELSE IF NodeAt(blank.rope, blank.idx).kind = "Leaf"
                 THEN [blank.rope EXCEPT !.nodes[blank.idx + 1].attr = new_attributes]
                 ELSE [blank.rope EXCEPT !.dbg = TRUE],
                 range_start, range_end, range_start, blank.idx, new_cells)

\* RopeMut::replace_attributes for AttributedRope
replace_attributes(rope, range_start, range_end, new_cells, new_attributes) ==
    LET found     == find_leaf(rope, range_start)
        leaf_node == NodeAt(rope, found.idx)
    IN
    IF rope.halt # "none" THEN rope
    ELSE IF leaf_node.kind # "Leaf" THEN [rope EXCEPT !.dbg = TRUE]
    ELSE IF \/ leaf_node.attr = new_attributes
            \/ covers_whole_leaf(found.offset, node_len(leaf_node), range_start, range_end)
    THEN replace(IF leaf_node.attr = new_attributes
                 THEN \* Attributes are unchanged for this node
                      [rope EXCEPT !.dbg = @ \/ found.dbg]
                 ELSE \* The entire node is covered: replace its attributes
                      [rope EXCEPT !.nodes[found.idx + 1].attr = new_attributes,
                                   !.dbg = @ \/ found.dbg],
                 range_start, range_end, new_cells)
    ELSE fill_blank(insert_blank_node(
                        [rope EXCEPT !.dbg = @ \/ found.dbg
                                         \/ USubUnderflows(range_start, found.offset)],
                        found.idx, range_start - found.offset),
                    range_start, range_end, new_cells, new_attributes)

-----------------------------------------------------------------------------
(* What a reader of the rope can see, by in-order traversal of the tree *)

\* The leaves reachable from a node, left to right
RECURSIVE leaves_below(_, _)
leaves_below(rope, idx) ==
    LET node == NodeAt(rope, idx) IN
    CASE node.kind = "Leaf"   -> <<idx>>
      [] node.kind = "Branch" -> leaves_below(rope, node.left) \o leaves_below(rope, node.right)
      [] node.kind = "Empty"  -> <<>>

Leaves(rope) == leaves_below(rope, rope.root_node_idx)

RECURSIVE concat_cells(_, _)
concat_cells(rope, leaves) ==
    IF leaves = <<>> THEN <<>>
    ELSE NodeAt(rope, Head(leaves)).cells \o concat_cells(rope, Tail(leaves))

\* The in-order cell sequence
Cells(rope) == concat_cells(rope, Leaves(rope))

RECURSIVE concat_attrs(_, _)
concat_attrs(rope, leaves) ==
    IF leaves = <<>> THEN <<>>
    ELSE [i \in 1..Len(NodeAt(rope, Head(leaves)).cells) |-> NodeAt(rope, Head(leaves)).attr]
             \o concat_attrs(rope, Tail(leaves))

\* The attribute of every cell, in order
Attrs(rope) == concat_attrs(rope, Leaves(rope))

\* split_at (test builds only): forces a split at a position
split_at(rope, pos) ==
    LET found == find_leaf(rope, pos) IN
    split([rope EXCEPT !.dbg = @ \/ found.dbg \/ USubUnderflows(pos, found.offset)],
          found.idx, pos - found.offset).rope

-----------------------------------------------------------------------------
(* RopeAction and RopeMut::edit for AttributedRope *)

ReplaceAction(start, end, new_cells) ==
    [kind |-> "Replace", start |-> start, end |-> end, cells |-> new_cells, attr |-> 0]

SetAttributesAction(start, end, new_attributes) ==
    [kind |-> "SetAttributes", start |-> start, end |-> end, cells |-> <<>>,
     attr |-> new_attributes]

ReplaceAttributesAction(start, end, new_cells, new_attributes) ==
    [kind |-> "ReplaceAttributes", start |-> start, end |-> end, cells |-> new_cells,
     attr |-> new_attributes]

\* AttributedRope::edit
edit(rope, action) ==
    CASE action.kind = "Replace" ->
            replace(rope, action.start, action.end, action.cells)
      [] action.kind = "SetAttributes" ->
            set_attributes(rope, action.start, action.end, action.attr)
      [] action.kind = "ReplaceAttributes" ->
            replace_attributes(rope, action.start, action.end, action.cells, action.attr)

-----------------------------------------------------------------------------
(* PullRope: the pending changes *)

RopePendingChange(original_start, original_end, new_start, new_end, changed_attributes) ==
    [original_range     |-> [start |-> original_start, end |-> original_end],
     new_range          |-> [start |-> new_start, end |-> new_end],
     changed_attributes |-> changed_attributes]

\* Range<usize>::len of a stored range
range_len(range) == RangeLen(range.start, range.end)

\* find_change: [idx, diff]; idx counts from 0 as in the source
RECURSIVE find_change_from(_, _, _, _)
find_change_from(pending, pos, idx, diff) ==
    IF idx >= Len(pending) THEN [idx |-> Len(pending), diff |-> diff]
    ELSE LET change == pending[idx + 1] IN
         IF ULe(change.new_range.start, pos) /\ ULt(pos, change.new_range.end)
         THEN [idx |-> idx, diff |-> diff]
         ELSE IF ULt(pos, change.new_range.start)
         THEN [idx |-> idx, diff |-> diff]
         ELSE find_change_from(pending, pos, idx + 1,
                  diff + range_len(change.original_range) - range_len(change.new_range))

find_change(pending, pos) == find_change_from(pending, pos, 0, 0)

\* Vec::insert(idx, change), idx counting from 0
InsertAt(pending, idx, change) ==
    SubSeq(pending, 1, idx) \o <<change>> \o SubSeq(pending, idx + 1, Len(pending))

\* The following ranges left where they are
stay_following(pending, first_idx, length_diff) == pending

\* mark_change, "adjust the position of the following ranges": the new_range of
\* every change at move_idx >= first_idx moves down by length_diff
move_following(pending, first_idx, length_diff) ==
    [i \in 1..Len(pending) |->
        IF i >= first_idx + 1
        THEN [pending[i] EXCEPT !.new_range.start = @ - length_diff,
                                !.new_range.end   = @ - length_diff]
        ELSE pending[i]]

\* move_following would underflow a usize in the debug profile
move_underflows(pending, first_idx, length_diff) ==
    \E i \in (first_idx + 1)..Len(pending) :
        \/ USubUnderflows(pending[i].new_range.start, length_diff)
        \/ USubUnderflows(pending[i].new_range.end, length_diff)

\* The difference in position a change adds: old_len - new_len
position_diff(change) == range_len(change.original_range) - range_len(change.new_range)

\* mark_change, the loop: the pending changes when it ends.  dbg: a debug-profile
\* overflow check has failed on the way.
RECURSIVE mark_change_loop(_, _, _, _, _, _, _, _)
mark_change_loop(pending, change_idx, diff, range_start, range_end, remaining_length, attribute_change, dbg) ==
    IF change_idx >= Len(pending)
    THEN \* beyond the end of the existing changes: add the edit to the end
         [changes |-> Append(pending,
                        RopePendingChange(range_start + diff, range_end + diff,
                                          range_start, range_start + remaining_length,
                                          attribute_change)),
          dbg     |-> dbg \/ UAddOverflows(range_start, remaining_length)]
    ELSE IF ULe(pending[change_idx + 1].new_range.start, range_start)
    THEN \* overlaps an existing change
         LET marked  == [pending EXCEPT ![change_idx + 1].changed_attributes =
                                            @ \/ attribute_change]
             change  == marked[change_idx + 1]
             new_end == range_start + remaining_length
             dbg1    == dbg \/ UAddOverflows(range_start, remaining_length)
         IN  IF ULt(new_end, change.new_range.end)
             THEN \* entirely within the existing change
                  LET max_diff      == range_len(change.new_range)
                      length_diff   == RangeLen(range_start, range_end) - remaining_length
                      length_change == IF max_diff <= length_diff THEN max_diff
                                       ELSE length_diff
                      adjusted      ==
                          IF length_diff # 0
                          THEN move_following(
                                   [marked EXCEPT ![change_idx + 1].new_range.end =
                                                      @ - length_change],
                                   change_idx + 1, length_change)
                          ELSE marked
                  IN  IF length_change = length_diff
                      THEN [changes |-> adjusted, dbg |-> dbg1]
                      ELSE mark_change_loop(adjusted, change_idx + 1,
                               diff + position_diff(adjusted[change_idx + 1]),
                               range_start, range_end - length_change, remaining_length,
                               attribute_change,
                               dbg1 \/ USubUnderflows(range_end, length_change))
             ELSE \* continue with the following change
                  LET used_length == change.new_range.end - range_start IN
                  mark_change_loop(marked, change_idx + 1,
                      diff + position_diff(change),
                      range_start + used_length, range_end,
                      remaining_length - used_length, attribute_change,
                      dbg1 \/ USubUnderflows(change.new_range.end, range_start)
                           \/ UAddOverflows(range_start, used_length)
                           \/ USubUnderflows(remaining_length, used_length))
    ELSE \* does not overlap an existing change
         LET next_range_start == pending[change_idx + 1].new_range.start IN
         IF ULe(range_end, next_range_start)
         THEN \* fits within the gap: insert it and stop
              LET inserted    == InsertAt(pending, change_idx,
                                     RopePendingChange(range_start + diff, range_end + diff,
                                         range_start, range_start + remaining_length,
                                         FALSE))
                  length_diff == RangeLen(range_start, range_end) - remaining_length
              IN  [changes |-> IF length_diff # 0
                               THEN move_following(inserted, change_idx + 1, length_diff)
                               ELSE inserted,
                   dbg     |-> dbg \/ UAddOverflows(range_start, remaining_length)]
         ELSE \* fill in as much as possible from the gap and continue
              LET gap_length     == next_range_start - range_start
                  original_start == range_start + diff
                  gap_end        == original_start + gap_length
                  dbg1           == dbg \/ USubUnderflows(next_range_start, range_start)
                                        \/ UAddOverflows(original_start, gap_length)
              IN  IF ULe(gap_length, remaining_length)
                  THEN \* the new range covers the entire gap
                       mark_change_loop(
                           InsertAt(pending, change_idx,
                               RopePendingChange(original_start, gap_end, range_start,
                                   range_start + gap_length, attribute_change)),
                           change_idx + 1, diff, range_start + gap_length, range_end,
                           remaining_length - gap_length, attribute_change,
                           dbg1 \/ UAddOverflows(range_start, gap_length))
                  ELSE \* the new range needs to shrink the gap
                       LET inserted    == InsertAt(pending, change_idx,
                                              RopePendingChange(original_start, gap_end,
                                                  range_start,
                                                  range_start + remaining_length,
                                                  attribute_change))
                           length_diff == gap_length - remaining_length
                           moved       == move_following(inserted, change_idx + 1,
                                                         length_diff)
                       IN  mark_change_loop(moved, change_idx + 1,
                               diff + position_diff(moved[change_idx + 1]),
                               range_start + remaining_length,
                               range_end - (gap_length - remaining_length), 0,
                               attribute_change,
                               dbg1 \/ UAddOverflows(range_start, remaining_length)
                                    \/ move_underflows(inserted, change_idx + 1, length_diff)
                                    \/ USubUnderflows(range_end,
                                                      gap_length - remaining_length))

\* mark_change: [changes, dbg]
mark_change(pending, original_start, original_end, new_length, attribute_change) ==
    LET found == find_change(pending, original_start) IN
    mark_change_loop(pending, found.idx, found.diff, original_start, original_end,
                     new_length, attribute_change, FALSE)

-----------------------------------------------------------------------------
(* PullRope: pulling the changes, and the tracked edits *)

\* A pull that leaves the pending changes where they are
keep_changes(pending) == [changes |-> pending, pending_changes |-> pending]

\* pull_changes, the swap it starts with: the rope is left with no pending
\* changes, and the iterator owns the ones there were
take_changes(pending) == [changes |-> <<>>, pending_changes |-> pending]

RECURSIVE attribute_runs(_, _, _, _, _)
\* pull_changes, the loop over the attribute runs of one change, once the
\* attributes at end_pos-1 and the cells of the run are read
run_action(rope, original_start, original_end, new_start, end_pos, read, new_cells) ==
    LET start_pos == UMax(new_start, read.start)
        action    == ReplaceAttributesAction(original_start, original_end,
                                             new_cells.cells, read.attr)
        dbg       == USubUnderflows(end_pos, 1) \/ read.dbg \/ new_cells.dbg
        more      == attribute_runs(rope, original_start, original_start, new_start,
                                    start_pos)
    IN  IF ULe(start_pos, new_start)
        THEN [actions |-> <<action>>, panic |-> FALSE, dbg |-> dbg]
        ELSE [actions |-> <<action>> \o more.actions, panic |-> more.panic,
              dbg     |-> dbg \/ more.dbg]

\* pull_changes, the loop over the attribute runs of one change, once the
\* attributes at end_pos-1 are read
run_cells(rope, original_start, original_end, new_start, end_pos, read) ==
    IF read.panic
    THEN [actions |-> <<>>, panic |-> TRUE, dbg |-> USubUnderflows(end_pos, 1) \/ read.dbg]
    ELSE run_action(rope, original_start, original_end, new_start, end_pos, read,
                    read_cells(rope, UMax(new_start, read.start), end_pos))

\* pull_changes, the loop over the attribute runs of one change, working backwards
\* from end_pos: [actions, panic, dbg]; dbg: a debug-profile build panics on the
\* way (end_pos-1 underflows, or read_attributes or read_cells fails a check)
attribute_runs(rope, original_start, original_end, new_start, end_pos) ==
    run_cells(rope, original_start, original_end, new_start, end_pos,
              read_attributes(rope, end_pos - 1))

\* pull_changes, the closure given to flat_map, for a change that needs its
\* cells only: the action, once the cells are read
replace_with(change, new_cells) ==
    [actions |-> <<ReplaceAction(change.original_range.start, change.original_range.end,
                                 new_cells.cells)>>,
     panic   |-> FALSE,
     dbg     |-> new_cells.dbg]

\* pull_changes, the closure given to flat_map: the actions for one change
change_actions(rope, change) ==
    IF change.changed_attributes /\ range_len(change.new_range) # 0
    THEN attribute_runs(rope, change.original_range.start, change.original_range.end,
                        change.new_range.start, change.new_range.end)
    ELSE replace_with(change, read_cells(rope, change.new_range.start,
                                         change.new_range.end))

\* pull_changes, the iterator: the actions of one change, then those of the
\* changes that follow it
actions_then(first, rest) ==
    [actions |-> first.actions \o rest.actions,
     panic   |-> first.panic \/ rest.panic,
     dbg     |-> first.dbg \/ rest.dbg]

\* An iterator that yields the changes pending[1..idx] first to last
RECURSIVE pull_forward(_, _, _)
pull_forward(rope, pending, idx) ==
    IF idx = 0 THEN [actions |-> <<>>, panic |-> FALSE, dbg |-> FALSE]
    ELSE IF \/ range_len(pending[idx].original_range) # 0
            \/ range_len(pending[idx].new_range) # 0
    THEN actions_then(pull_forward(rope, pending, idx - 1),
                      change_actions(rope, pending[idx]))
    ELSE pull_forward(rope, pending, idx - 1)

\* pull_changes, the iterator: the changes pending[1..idx] in reverse, without
\* those whose two ranges are both empty
RECURSIVE pull_from(_, _, _)
pull_from(rope, pending, idx) ==
    IF idx = 0 THEN [actions |-> <<>>, panic |-> FALSE, dbg |-> FALSE]
    ELSE IF \/ range_len(pending[idx].original_range) # 0
            \/ range_len(pending[idx].new_range) # 0
    THEN actions_then(change_actions(rope, pending[idx]),
                      pull_from(rope, pending, idx - 1))
    ELSE pull_from(rope, pending, idx - 1)

\* PullRope::pull_changes, collected: [actions, panic, dbg]
pull_changes(rope, pending) == pull_from(rope, pending, Len(pending))

\* A tracked edit that calls pull_fn whenever changes are pending afterwards
tracked_every_edit(edited, marked, need_pull) ==
    [rope    |-> [edited EXCEPT !.dbg = @ \/ marked.dbg],
     changes |-> marked.changes,
     notify  |-> Len(marked.changes) > 0]

\* What a tracked edit leaves: the base rope, the pending changes, and whether
\* pull_fn was called
tracked(edited, marked, need_pull) ==
    [rope    |-> [edited EXCEPT !.dbg = @ \/ marked.dbg],
     changes |-> marked.changes,
     notify  |-> need_pull /\ Len(marked.changes) > 0]

\* PullRope::replace
PullRope_replace(rope, pending, range_start, range_end, new_cells) ==
    tracked(replace(rope, range_start, range_end, new_cells),
            mark_change(pending, range_start, range_end, Len(new_cells), FALSE),
            Len(pending) = 0)

\* PullRope::set_attributes
PullRope_set_attributes(rope, pending, range_start, range_end, new_attributes) ==
    tracked(set_attributes(rope, range_start, range_end, new_attributes),
            mark_change(pending, range_start, range_end,
                        RangeLen(range_start, range_end), TRUE),
            Len(pending) = 0)

\* PullRope::replace_attributes
PullRope_replace_attributes(rope, pending, range_start, range_end, new_cells, new_attributes) ==
    tracked(replace_attributes(rope, range_start, range_end, new_cells, new_attributes),
            mark_change(pending, range_start, range_end, Len(new_cells), TRUE),
            Len(pending) = 0)

\* PullRope::edit
PullRope_edit(rope, pending, action) ==
    tracked(edit(rope, action),
            CASE action.kind = "Replace" ->
                    mark_change(pending, action.start, action.end, Len(action.cells), FALSE)
              [] action.kind = "SetAttributes" ->
                    mark_change(pending, action.start, action.end,
                                RangeLen(action.start, action.end), TRUE)
              [] action.kind = "ReplaceAttributes" ->
                    mark_change(pending, action.start, action.end, Len(action.cells), TRUE),
            Len(pending) = 0)

-----------------------------------------------------------------------------
(* RopeConcatenator *)

\* send_left, the new length of the edited range of an item
item_new_len(item) ==
    IF item.kind = "SetAttributes" THEN RangeLen(item.start, item.end) ELSE Len(item.cells)

\* send_left, the closure given to map, for one item: the new left_len.  dbg: a
\* debug-profile build fails an assertion or an overflow check
send_left_item(left_len, item, new_len, range_len_) ==
    [left_len |-> IF ULt(range_len_, new_len) THEN left_len + (new_len - range_len_)
                  ELSE IF ULt(new_len, range_len_) THEN left_len - (range_len_ - new_len)
                  ELSE left_len,
     dbg      |-> \/ ~ULe(item.start, left_len)
                  \/ ~ULe(item.end, left_len)
                  \/ (ULt(range_len_, new_len) /\ UAddOverflows(left_len, new_len - range_len_))
                  \/ (ULt(new_len, range_len_) /\ ~ULe(range_len_ - new_len, left_len))]

\* A send_right that passes the item through as it is
send_right_unchanged(left_len, item) ==
    [action |-> item, dbg |-> FALSE]

\* send_right, the closure given to map, for one item: [action, dbg], left_len
\* being self.left_len as it was when send_right was called
send_right_item(left_len, item) ==
    [action |-> [item EXCEPT !.start = @ + left_len, !.end = @ + left_len],
     dbg    |-> UAddOverflows(item.start, left_len) \/ UAddOverflows(item.end, left_len)]

\* send_left and send_right, the closure given to map, for one item:
\* [action, left_len, dbg].  self_left_len is self.left_len when the item comes
\* through, captured what send_right copied of it at the call
map_item(side_name, self_left_len, captured, item) ==
    IF side_name = "left"
    THEN [action   |-> item,
          left_len |-> send_left_item(self_left_len, item, item_new_len(item),
                                      RangeLen(item.start, item.end)).left_len,
          dbg      |-> send_left_item(self_left_len, item, item_new_len(item),
                                      RangeLen(item.start, item.end)).dbg]
    ELSE [action   |-> send_right_item(captured, item).action,
          left_len |-> self_left_len,
          dbg      |-> send_right_item(captured, item).dbg]

\* concatenator.send_...(side.pull_changes()).for_each(|edit| concatenated.edit(edit))
\* before its first item: the rope that takes the edits, left_len, the items
\* pulled and the actions yielded so far; dbg, pull_dbg: a debug-profile build
\* fails a check in the concatenator, in pull_changes; pull_panic: pull_changes
\* panicked
start_run(concatenated_rope, self_left_len) ==
    [concatenated |-> concatenated_rope, left_len |-> self_left_len,
     items |-> <<>>, actions |-> <<>>,
     dbg |-> FALSE, pull_dbg |-> FALSE, pull_panic |-> FALSE]

\* The rope after a call: a call that panicked or never returns leaves no rope
\* to look at, so the state keeps the rope as it was, marked with the outcome
Outcome(result, pre) ==
    IF result.halt # "none" THEN [pre EXCEPT !.halt = result.halt] ELSE result

\* for_each(|edit| concatenated.edit(edit)), for one item the map has yielded
for_each_edit(run, item, mapped) ==
    [run EXCEPT !.concatenated = Outcome(edit(run.concatenated, mapped.action),
                                         run.concatenated),
                !.left_len     = mapped.left_len,
                !.items        = Append(@, item),
                !.actions      = Append(@, mapped.action),
                !.dbg          = @ \/ mapped.dbg]

\* The iterators are lazy: each action of a change goes through the map and is
\* edited in before the next one is taken; an edit that does not return ends it
RECURSIVE send_items(_, _, _, _, _)
send_items(run, side_name, captured, items, idx) ==
    IF idx > Len(items) \/ run.concatenated.halt # "none" THEN run
    ELSE send_items(for_each_edit(run, items[idx],
                                  map_item(side_name, run.left_len, captured, items[idx])),
                    side_name, captured, items, idx + 1)

\* pull_changes, the closure given to flat_map, has built the actions of one
\* change (or panicked on the way); they go through one by one
send_change(run, side_name, captured, pulled_actions) ==
    IF pulled_actions.panic
    THEN [run EXCEPT !.pull_panic = TRUE, !.pull_dbg = @ \/ pulled_actions.dbg]
    ELSE send_items([run EXCEPT !.pull_dbg = @ \/ pulled_actions.dbg],
                    side_name, captured, pulled_actions.actions, 1)

\* The changes pending[1..idx] in reverse, without those whose two ranges are
\* both empty: the actions of a change are read from the rope only when those
\* of the changes before it have been edited in
RECURSIVE send_changes(_, _, _, _, _, _)
send_changes(run, side_name, captured, rope, pending, idx) ==
    IF idx = 0 \/ run.pull_panic \/ run.concatenated.halt # "none" THEN run
    ELSE IF \/ range_len(pending[idx].original_range) # 0
            \/ range_len(pending[idx].new_range) # 0
    THEN send_changes(send_change(run, side_name, captured,
                                  change_actions(rope, pending[idx])),
                      side_name, captured, rope, pending, idx - 1)
    ELSE send_changes(run, side_name, captured, rope, pending, idx - 1)

-----------------------------------------------------------------------------
(* PushBeforeRope / PushAfterRope *)

\* What a call on a push rope leaves: the base rope and the calls of push_fn it
\* made, each with its argument and the base rope as it was at the call
\* RopeMut::edit for PushBeforeRope
PushBeforeRope_edit(rope, action) ==
    [rope |-> edit(rope, action), calls |-> <<[action |-> action, seen |-> rope]>>]

\* The methods of PushAfterRope: push_fn is called when the base rope returns
push_after(edited, action) ==
    [rope  |-> edited,
     calls |-> IF edited.halt = "none" THEN <<[action |-> action, seen |-> edited]>>
               ELSE <<>>]

\* A push rope that calls push_fn first, whatever its kind
push_first(rope, action) == PushBeforeRope_edit(rope, action)

\* RopeMut::edit for PushAfterRope
PushAfterRope_edit(rope, action) == push_after(edit(rope, action), action)

\* RopeMut::replace: the default method for PushBeforeRope, and PushAfterRope's own
push_replace(kind, rope, range_start, range_end, new_cells) ==
    IF kind = "before"
    THEN PushBeforeRope_edit(rope, ReplaceAction(range_start, range_end, new_cells))
    ELSE push_after(replace(rope, range_start, range_end, new_cells),
                    ReplaceAction(range_start, range_end, new_cells))

\* RopeMut::set_attributes: the default method for PushBeforeRope, and PushAfterRope's own
push_set_attributes(kind, rope, range_start, range_end, new_attributes) ==
    IF kind = "before"
    THEN PushBeforeRope_edit(rope, SetAttributesAction(range_start, range_end, new_attributes))
    ELSE push_after(set_attributes(rope, range_start, range_end, new_attributes),
                    SetAttributesAction(range_start, range_end, new_attributes))

\* RopeMut::replace_attributes: the default method for PushBeforeRope, and PushAfterRope's own
push_replace_attributes(kind, rope, range_start, range_end, new_cells, new_attributes) ==
    IF kind = "before"
    THEN PushBeforeRope_edit(rope, ReplaceAttributesAction(range_start, range_end,
                                                          new_cells, new_attributes))
    ELSE push_after(replace_attributes(rope, range_start, range_end, new_cells,
                                       new_attributes),
                    ReplaceAttributesAction(range_start, range_end, new_cells,
                                            new_attributes))

\* RopeMut::edit for the two push ropes
push_edit(kind, rope, action) ==
    IF kind = "before" THEN PushBeforeRope_edit(rope, action)
    ELSE PushAfterRope_edit(rope, action)

-----------------------------------------------------------------------------
(* PartialEq for AttributedRope *)

\* eq, the loop over the two cell iterators: it ends when either is exhausted
cells_differ(cells_a, cells_b) ==
    \E i \in 1..Len(cells_a) : i <= Len(cells_b) /\ cells_a[i] # cells_b[i]

\* eq, the loop over the attributes: [equal, halt, dbg].  a and b are what
\* read_attributes returned for attr_a, range_a and attr_b, range_b; seen holds
\* the pairs the loop has started an iteration with, and a pair coming back
\* means the loop never ends.  dbg: a debug-profile build fails the assertion
RECURSIVE eq_attributes(_, _, _, _, _, _)
eq_attributes(self, len, a, b, seen, dbg) ==
    LET dbg1 == dbg \/ a.dbg \/ b.dbg
                    \/ RangeLen(a.start, a.end) = 0 \/ RangeLen(b.start, b.end) = 0
        \* "range_a and range_b should now overlap", and moving one of them onwards
        compare(a1, b1) ==
            IF a1.panic \/ b1.panic
            THEN [equal |-> FALSE, halt |-> "panic", dbg |-> dbg1 \/ a1.dbg \/ b1.dbg]
            ELSE IF a1.attr # b1.attr
            THEN [equal |-> FALSE, halt |-> "none", dbg |-> dbg1 \/ a1.dbg \/ b1.dbg]
            ELSE IF ULe(len, a1.end) /\ ULe(len, b1.end)
            THEN [equal |-> TRUE, halt |-> "none", dbg |-> dbg1 \/ a1.dbg \/ b1.dbg]
            ELSE IF ULe(a1.end, b1.end)
            THEN eq_attributes(self, len, read_attributes(self, a1.end), b1,
                               seen \cup {<<a, b>>}, dbg1 \/ a1.dbg)
            ELSE eq_attributes(self, len, a1, read_attributes(self, b1.end),
                               seen \cup {<<a, b>>}, dbg1 \/ b1.dbg)
        \* "similarly for range_b"
        move_b(a1) ==
            compare(a1, IF ULe(b.end, a1.start) \/ b.start = b.end
                        THEN read_attributes(self, a1.start) ELSE b)
    IN  IF a.panic \/ b.panic
        THEN [equal |-> FALSE, halt |-> "panic", dbg |-> dbg \/ a.dbg \/ b.dbg]
        ELSE IF <<a, b>> \in seen THEN [equal |-> FALSE, halt |-> "hang", dbg |-> dbg]
        ELSE move_b(IF ULe(a.end, b.start) \/ a.start = a.end
                    THEN read_attributes(self, b.start) ELSE a)

\* eq, the loop over the two cell iterators: the number of times it calls next
\* on each of them
cell_calls(cells_a, cells_b) ==
    IF cells_differ(cells_a, cells_b)
    THEN CHOOSE i \in 1..Len(cells_a) :
             /\ i <= Len(cells_b) /\ cells_a[i] # cells_b[i]
             /\ \A j \in 1..(i - 1) : cells_a[j] = cells_b[j]
    ELSE (IF Len(cells_a) <= Len(cells_b) THEN Len(cells_a) ELSE Len(cells_b)) + 1

\* eq, the loop over the two cell iterators: a debug-profile build panics in
\* read_cells or in one of the calls of next the loop makes
cells_panic(read_a, read_b) ==
    \/ read_a.dbg /\ read_a.sound < cell_calls(read_a.cells, read_b.cells)
    \/ read_b.dbg /\ read_b.sound < cell_calls(read_a.cells, read_b.cells)

\* PartialEq::eq for AttributedRope: [equal, halt, dbg]
eq(self, other) ==
    IF rope_len(self) # rope_len(other)
    THEN [equal |-> FALSE, halt |-> "none", dbg |-> FALSE]
    ELSE IF cells_differ(read_cells(self, 0, rope_len(self)).cells,
                         read_cells(other, 0, rope_len(other)).cells)
    THEN [equal |-> FALSE, halt |-> "none",
          dbg   |-> cells_panic(read_cells(self, 0, rope_len(self)),
                                read_cells(other, 0, rope_len(other)))]
    ELSE eq_attributes(self, rope_len(self), read_attributes(self, 0),
                       read_attributes(self, 0), {},
                       cells_panic(read_cells(self, 0, rope_len(self)),
                                   read_cells(other, 0, rope_len(other))))

-----------------------------------------------------------------------------
(* Bounds and inputs *)

\* Number of operations applied to a rope in one behaviour
MaxOps == 3

\* Number of edits applied to a PullRope in one behaviour (pulls are not counted)
MaxTracked == 2

\* Number of calls of pull_changes between two edits of a PullRope
MaxPulls == 2

\* Number of edits applied to the two sides of a concatenation in one behaviour
MaxConcatEdits == 3

\* Number of operations applied to the two ropes of a comparison in one behaviour
MaxEqOps == 2

\* Number of operations applied to a push rope in one behaviour
MaxPushOps == 2

\* Number of calls of mark_change on a PullRope in one behaviour
MaxMarks == 3

\* The new lengths given to mark_change are 0..MaxNewLen
MaxNewLen == 2

\* Positions given to the operations are 0..MaxPos
MaxPos == 3

Positions == 0..MaxPos

\* The ropes a behaviour starts from: AttributedRope::new(), and
\* AttributedRope::from of 3 cells and of SPLIT_LENGTH + 2 cells
InitCells == {<<>>, <<1, 2, 3>>, [i \in 1..(SPLIT_LENGTH + 2) |-> i]}

NewCells == {<<>>, <<9>>}

Attributes == {0, 1}

\* The contents of the base rope a PullRope is built over
PullInitCells == {<<>>, <<1, 2, 3>>}

\* The cells the edits of the left and of the right side of a concatenation insert
LeftCells == {<<>>, <<1>>}

RightCells == {<<>>, <<2>>}

-----------------------------------------------------------------------------
(* The state: one AttributedRope, on its own or as the base rope of a PullRope *)

VARIABLES
    rope,       \* the AttributedRope (PullRope::rope when it is tracked)
    before,     \* the rope as it was before the last operation
    op,         \* the last operation and its arguments
    ops,        \* number of editing operations applied
    changes,    \* PullRope::changes: the pending changes, in ascending order
    notified,   \* number of calls of PullRope::pull_fn so far
    waiting,    \* pull_fn has been called since the last pull_changes
    snapshot,   \* the rope as it was at the last pull_changes (or at construction)
    previous,   \* the snapshot the last pull_changes started from
    pulled,     \* the actions the last pull_changes yielded, in the order yielded
    pulls,      \* number of calls of pull_changes since the last edit
    lhs,        \* concatenation: the left PullRope, [rope, changes]
    rhs,        \* concatenation: the right PullRope, [rope, changes]
    concatenated,   \* concatenation: the rope that receives the combined actions
    left_len,   \* RopeConcatenator::left_len
    other,      \* comparison: the second rope
    compared,   \* comparison: what rope == other and other == rope gave last
    push_kind,  \* push rope: "before" for a PushBeforeRope, "after" for a PushAfterRope
    pushed,     \* push rope: the calls of push_fn so far, each with its
                \* argument and the base rope as it was at the call
    tracked_len,    \* mark_change alone: the length of the rope the ranges lie in
    mark_dbg,   \* mark_change alone: a debug-profile build panicked in the last call
    sent,       \* the last batch sent: the side, the items, the actions
                \* yielded, left_len as it was at the call, and dbg: a
                \* debug-profile build panics in the concatenator
    pc,         \* editing method in steps: the statement the method is at
    call,       \* editing method in steps: the method called and its arguments
    need_pull,  \* editing method in steps: the local need_pull
    marked_from,    \* editing method in steps: PullRope::changes as the call found it
    seen        \* editing method in steps: the calls of pull_fn so far, each with
                \* the base rope and the pending changes as they were at the call

vars == <<rope, before, op, ops, changes, notified, waiting, snapshot, previous, pulled, pulls, lhs, rhs, concatenated, left_len, sent, other, compared, push_kind, pushed, tracked_len, mark_dbg, pc, call, need_pull, marked_from, seen>>

\* What mark_change called alone adds
marking == <<tracked_len, mark_dbg>>

InitMarking == tracked_len = 0 /\ mark_dbg = FALSE

\* What an editing method of a PullRope run statement by statement adds
stepping == <<pc, call, need_pull, marked_from, seen>>

NoCall == [method |-> "none", action |-> [kind |-> "Replace", start |-> 0, end |-> 0, cells |-> <<>>, attr |-> 0]]

InitStepping ==
    pc = "idle" /\ call = NoCall /\ need_pull = FALSE /\ marked_from = <<>> /\ seen = <<>>

\* What a push rope adds to its base rope
pushing == <<push_kind, pushed>>

InitPushing == push_kind = "none" /\ pushed = <<>>

\* What a comparison adds
comparison == <<other, compared>>

NotCompared ==
    [ab |-> [equal |-> FALSE, halt |-> "none", dbg |-> FALSE],
     ba |-> [equal |-> FALSE, halt |-> "none", dbg |-> FALSE], done |-> FALSE]

InitComparison == other = RopeFrom(<<>>) /\ compared = NotCompared

\* What a concatenation adds
concatenation == <<lhs, rhs, concatenated, left_len, sent>>

\* PullRope::from(AttributedRope::new(), || {})
NewPullRope == [rope |-> RopeFrom(<<>>), changes |-> <<>>]

NoBatch == [side |-> "none", items |-> <<>>, actions |-> <<>>, left_len |-> 0, dbg |-> FALSE]

\* Two new PullRopes, AttributedRope::new() and RopeConcatenator::new()
InitConcatenation ==
    /\ lhs = NewPullRope
    /\ rhs = NewPullRope
    /\ concatenated = RopeFrom(<<>>)
    /\ left_len = 0
    /\ sent = NoBatch

\* What a PullRope adds to its base rope
tracker == <<changes, notified, waiting, snapshot, previous, pulled, pulls>>

NoOp == [kind |-> "none", start |-> 0, end |-> 0, cells |-> <<>>, attr |-> 0]

Init ==
    /\ rope \in {RopeFrom(cells) : cells \in InitCells}
    /\ before = rope
    /\ op = NoOp
    /\ ops = 0
    /\ changes = <<>>
    /\ notified = 0
    /\ waiting = FALSE
    /\ snapshot = rope
    /\ previous = rope
    /\ pulled = <<>>
    /\ pulls = 0
    /\ InitConcatenation
    /\ InitComparison
    /\ InitPushing
    /\ InitMarking
    /\ InitStepping

CanEdit == ops < MaxOps /\ rope.halt = "none"

Replace ==
    \E start \in Positions, end \in Positions, new_cells \in NewCells :
        /\ CanEdit /\ start <= end
        /\ rope' = Outcome(replace(rope, start, end, new_cells), rope)
        /\ op' = [kind |-> "replace", start |-> start, end |-> end,
                  cells |-> new_cells, attr |-> 0]
        /\ before' = rope
        /\ ops' = ops + 1
        /\ UNCHANGED <<tracker, concatenation, comparison, pushing, marking, stepping>>

SetAttributes ==
    \E start \in Positions, end \in Positions, new_attributes \in Attributes :
        /\ CanEdit /\ start <= end
        /\ rope' = Outcome(set_attributes(rope, start, end, new_attributes), rope)
        /\ op' = [kind |-> "set_attributes", start |-> start, end |-> end,
                  cells |-> <<>>, attr |-> new_attributes]
        /\ before' = rope
        /\ ops' = ops + 1
        /\ UNCHANGED <<tracker, concatenation, comparison, pushing, marking, stepping>>

ReplaceAttributes ==
    \E start \in Positions, end \in Positions, new_cells \in NewCells,
       new_attributes \in Attributes :
        /\ CanEdit /\ start <= end
        /\ rope' = Outcome(replace_attributes(rope, start, end, new_cells, new_attributes), rope)
        /\ op' = [kind |-> "replace_attributes", start |-> start, end |-> end,
                  cells |-> new_cells, attr |-> new_attributes]
        /\ before' = rope
        /\ ops' = ops + 1
        /\ UNCHANGED <<tracker, concatenation, comparison, pushing, marking, stepping>>

SplitAt ==
    \E pos \in Positions :
        /\ CanEdit /\ ULe(pos, rope_len(rope))
        /\ rope' = Outcome(split_at(rope, pos), rope)
        /\ op' = [kind |-> "split_at", start |-> pos, end |-> pos,
                  cells |-> <<>>, attr |-> 0]
        /\ before' = rope
        /\ ops' = ops + 1
        /\ UNCHANGED <<tracker, concatenation, comparison, pushing, marking, stepping>>

Next == Replace \/ SetAttributes \/ ReplaceAttributes \/ SplitAt

Spec == Init /\ [][Next]_vars

-----------------------------------------------------------------------------
(* The state machine of a PullRope over an AttributedRope *)

\* PullRope::from(AttributedRope::from(cells), pull_fn)
InitPull ==
    /\ rope \in {RopeFrom(cells) : cells \in PullInitCells}
    /\ before = rope
    /\ op = NoOp
    /\ ops = 0
    /\ changes = <<>>
    /\ notified = 0
    /\ waiting = FALSE
    /\ snapshot = rope
    /\ previous = rope
    /\ pulled = <<>>
    /\ pulls = 0
    /\ InitConcatenation
    /\ InitComparison
    /\ InitPushing
    /\ InitMarking
    /\ InitStepping

CanTrack == ops < MaxTracked /\ rope.halt = "none"

\* The tracked edits are given ranges that lie within the rope, by the length
\* the rope reports and by the cells it holds
Within(r, start, end) ==
    start <= end /\ ULe(end, rope_len(r)) /\ end <= Len(Cells(r))

\* A tracked edit ends: a call that panicked or never returns leaves the state
\* as it was, marked with the outcome
Tracked(result, this_op) ==
    /\ rope' = Outcome(result.rope, rope)
    /\ changes' = IF result.rope.halt = "none" THEN result.changes ELSE changes
    /\ notified' = IF result.rope.halt = "none" /\ result.notify
                   THEN notified + 1 ELSE notified
    /\ waiting' = (waiting \/ (result.rope.halt = "none" /\ result.notify))
    /\ op' = this_op
    /\ before' = rope
    /\ ops' = ops + 1
    /\ pulls' = IF result.rope.halt = "none" THEN 0 ELSE pulls
    /\ UNCHANGED <<snapshot, previous, pulled, concatenation, comparison, pushing, marking, stepping>>

PullReplace ==
    \E start \in Positions, end \in Positions, new_cells \in NewCells :
        /\ CanTrack /\ Within(rope, start, end)
        /\ Tracked(PullRope_replace(rope, changes, start, end, new_cells),
                   [kind |-> "replace", start |-> start, end |-> end,
                    cells |-> new_cells, attr |-> 0])

PullSetAttributes ==
    \E start \in Positions, end \in Positions, new_attributes \in Attributes :
        /\ CanTrack /\ Within(rope, start, end)
        /\ Tracked(PullRope_set_attributes(rope, changes, start, end, new_attributes),
                   [kind |-> "set_attributes", start |-> start, end |-> end,
                    cells |-> <<>>, attr |-> new_attributes])

PullReplaceAttributes ==
    \E start \in Positions, end \in Positions, new_cells \in NewCells,
       new_attributes \in Attributes :
        /\ CanTrack /\ Within(rope, start, end)
        /\ Tracked(PullRope_replace_attributes(rope, changes, start, end, new_cells,
                                               new_attributes),
                   [kind |-> "replace_attributes", start |-> start, end |-> end,
                    cells |-> new_cells, attr |-> new_attributes])

\* The actions an edit is drawn from
EditActions(cells) ==
    UNION {{ReplaceAction(start, end, new_cells),
            SetAttributesAction(start, end, new_attributes),
            ReplaceAttributesAction(start, end, new_cells, new_attributes)} :
           start \in Positions, end \in Positions, new_cells \in cells,
           new_attributes \in Attributes}

\* The operation an action stands for
EditKind(action) ==
    CASE action.kind = "Replace" -> "replace"
      [] action.kind = "SetAttributes" -> "set_attributes"
      [] action.kind = "ReplaceAttributes" -> "replace_attributes"

PullEdit ==
    \E start \in Positions, end \in Positions, new_cells \in NewCells,
       new_attributes \in Attributes :
        \E action \in {ReplaceAction(start, end, new_cells),
                       SetAttributesAction(start, end, new_attributes),
                       ReplaceAttributesAction(start, end, new_cells, new_attributes)} :
            /\ CanTrack /\ Within(rope, start, end)
            /\ Tracked(PullRope_edit(rope, changes, action),
                       [kind |-> EditKind(action), start |-> start, end |-> end,
                        cells |-> action.cells, attr |-> action.attr])

\* pull_changes, with the iterator it returns run to its end
PullChanges ==
    \E taken \in {take_changes(changes)} :
    \E result \in {pull_changes(rope, taken.pending_changes)} :
    /\ rope.halt = "none" /\ pulls < MaxPulls
    /\ pulls' = IF result.panic THEN pulls ELSE pulls + 1
    /\ rope' = IF result.panic THEN [rope EXCEPT !.halt = "panic"]
               ELSE [rope EXCEPT !.dbg = @ \/ result.dbg]
    /\ changes' = taken.changes
    /\ pulled' = IF result.panic THEN pulled ELSE result.actions
    /\ previous' = IF result.panic THEN previous ELSE snapshot
    /\ snapshot' = IF result.panic THEN snapshot ELSE rope
    /\ op' = [kind |-> "pull_changes", start |-> 0, end |-> 0, cells |-> <<>>, attr |-> 0]
    /\ before' = rope
    /\ waiting' = (result.panic /\ waiting)
    /\ UNCHANGED <<ops, notified, concatenation, comparison, pushing, marking, stepping>>

\* pull_changes, with the iterator it returns dropped before its first item:
\* nothing is read from the rope
PullChangesDropped ==
    \E taken \in {take_changes(changes)} :
    /\ rope.halt = "none" /\ pulls < MaxPulls
    /\ pulls' = pulls + 1
    /\ changes' = taken.changes
    /\ pulled' = <<>>
    /\ previous' = snapshot
    /\ snapshot' = rope
    /\ op' = [kind |-> "pull_dropped", start |-> 0, end |-> 0, cells |-> <<>>, attr |-> 0]
    /\ before' = rope
    /\ waiting' = FALSE
    /\ UNCHANGED <<rope, ops, notified, concatenation, comparison, pushing, marking, stepping>>

NextPull ==
    \/ PullReplace \/ PullSetAttributes \/ PullReplaceAttributes \/ PullEdit
    \/ PullChanges \/ PullChangesDropped

SpecPull == InitPull /\ [][NextPull]_vars

-----------------------------------------------------------------------------
(* The editing methods of a PullRope, statement by statement: the change is
   stored, the call is passed on to the base rope, pull_fn is called *)

\* "Store the change": the mark_change call of an editing method
store_change(pending, action) ==
    CASE action.kind = "Replace" ->
            mark_change(pending, action.start, action.end, Len(action.cells), FALSE)
      [] action.kind = "SetAttributes" ->
            mark_change(pending, action.start, action.end,
                        RangeLen(action.start, action.end), TRUE)
      [] action.kind = "ReplaceAttributes" ->
            mark_change(pending, action.start, action.end, Len(action.cells), TRUE)

\* A method that leaves the base rope as it is
pass_by(base, called) == base

\* "Pass on to the base rope": the call an editing method makes on self.rope
pass_on(base, called) ==
    CASE called.method = "edit" -> edit(base, called.action)
      [] called.method = "replace" ->
            replace(base, called.action.start, called.action.end, called.action.cells)
      [] called.method = "set_attributes" ->
            set_attributes(base, called.action.start, called.action.end,
                           called.action.attr)
      [] called.method = "replace_attributes" ->
            replace_attributes(base, called.action.start, called.action.end,
                               called.action.cells, called.action.attr)

\* The methods that take an action: edit, and the method named after it
Methods(action) == {"edit", EditKind(action)}

\* need_pull is read and the change is stored
StepStore ==
    \E action \in EditActions(NewCells) :
    \E method \in Methods(action) :
        /\ pc = "idle" /\ CanTrack /\ Within(rope, action.start, action.end)
        /\ need_pull' = (Len(changes) = 0)
        /\ \E marked \in {store_change(changes, action)} :
            /\ changes' = marked.changes
            /\ rope' = [rope EXCEPT !.dbg = @ \/ marked.dbg]
        /\ call' = [method |-> method, action |-> action]
        /\ marked_from' = changes
        /\ before' = rope
        /\ op' = [kind |-> EditKind(action), start |-> action.start, end |-> action.end,
                  cells |-> action.cells, attr |-> action.attr]
        /\ pc' = "stored"
        /\ UNCHANGED <<ops, notified, waiting, seen, snapshot, previous, pulled, pulls, concatenation, comparison, pushing, marking>>

\* The call is passed on to the base rope; a panic there ends the method
StepPassOn ==
    /\ pc = "stored"
    /\ \E passed \in {pass_on(rope, call)} :
        /\ rope' = Outcome(passed, rope)
        /\ pc' = IF passed.halt = "none" THEN "passed" ELSE "idle"
    /\ UNCHANGED <<before, op, ops, changes, notified, waiting, snapshot, previous, pulled, pulls, call, need_pull, marked_from, seen, concatenation, comparison, pushing, marking>>

\* pull_fn is called if the changes went from none to some; the method returns
StepNotify ==
    /\ pc = "passed"
    /\ IF need_pull /\ Len(changes) > 0
       THEN /\ notified' = notified + 1
            /\ waiting' = TRUE
            /\ seen' = Append(seen, [rope |-> rope, changes |-> changes])
       ELSE UNCHANGED <<notified, waiting, seen>>
    /\ pc' = "idle"
    /\ ops' = ops + 1
    /\ pulls' = 0
    /\ UNCHANGED <<rope, before, op, changes, snapshot, previous, pulled, call, need_pull, marked_from, concatenation, comparison, pushing, marking>>

\* pull_changes borrows the whole PullRope: it runs between two editing calls
StepPull == pc = "idle" /\ (PullChanges \/ PullChangesDropped)

NextSteps == StepStore \/ StepPassOn \/ StepNotify \/ StepPull

SpecSteps == InitPull /\ [][NextSteps]_vars

-----------------------------------------------------------------------------
(* The state machine of a concatenation: two PullRopes, a RopeConcatenator and
   the rope that receives what it yields *)

InitConcat ==
    /\ rope = RopeFrom(<<>>)
    /\ before = rope
    /\ op = NoOp
    /\ ops = 0
    /\ changes = <<>>
    /\ notified = 0
    /\ waiting = FALSE
    /\ snapshot = rope
    /\ previous = rope
    /\ pulled = <<>>
    /\ pulls = 0
    /\ InitConcatenation
    /\ InitComparison
    /\ InitPushing
    /\ InitMarking
    /\ InitStepping

\* The rope on its own takes no part in a concatenation
alone == <<rope, before, changes, notified, waiting, snapshot, previous, pulled, pulls, other, compared, push_kind, pushed, tracked_len, mark_dbg, pc, call, need_pull, marked_from, seen>>

ConcatRunning ==
    lhs.rope.halt = "none" /\ rhs.rope.halt = "none" /\ concatenated.halt = "none"

\* A PullRope after an edit: as it was, marked with the outcome, if the edit
\* panicked or never returns
Edited(side, result) ==
    IF result.rope.halt = "none"
    THEN [rope |-> result.rope, changes |-> result.changes]
    ELSE [side EXCEPT !.rope.halt = result.rope.halt]

\* lhs.edit(action)
EditLeft ==
    \E action \in EditActions(LeftCells) :
        /\ ConcatRunning /\ ops < MaxConcatEdits
        /\ Within(lhs.rope, action.start, action.end)
        /\ lhs' = Edited(lhs, PullRope_edit(lhs.rope, lhs.changes, action))
        /\ op' = [kind |-> EditKind(action), start |-> action.start, end |-> action.end,
                  cells |-> action.cells, attr |-> action.attr]
        /\ ops' = ops + 1
        /\ UNCHANGED <<alone, rhs, concatenated, left_len, sent>>

\* rhs.edit(action)
EditRight ==
    \E action \in EditActions(RightCells) :
        /\ ConcatRunning /\ ops < MaxConcatEdits
        /\ Within(rhs.rope, action.start, action.end)
        /\ rhs' = Edited(rhs, PullRope_edit(rhs.rope, rhs.changes, action))
        /\ op' = [kind |-> EditKind(action), start |-> action.start, end |-> action.end,
                  cells |-> action.cells, attr |-> action.attr]
        /\ ops' = ops + 1
        /\ UNCHANGED <<alone, lhs, concatenated, left_len, sent>>

\* A PullRope after pull_changes: the pending changes are taken at the call,
\* and a panic of the iterator is a panic of the statement
Pulled(side, taken, out) ==
    [side EXCEPT !.changes   = taken.changes,
                 !.rope.dbg  = @ \/ out.pull_dbg,
                 !.rope.halt = IF out.pull_panic THEN "panic" ELSE @]

\* The concatenated rope, left_len and the batch after
\* concatenator.send_...(side.pull_changes()).for_each(|edit| concatenated.edit(edit))
Sent(side_name, out) ==
    /\ concatenated' = out.concatenated
    /\ left_len' = out.left_len
    /\ sent' = [side |-> side_name, items |-> out.items, actions |-> out.actions,
                left_len |-> left_len, dbg |-> out.dbg]
    /\ op' = [kind |-> "send", start |-> 0, end |-> 0, cells |-> <<>>, attr |-> 0]

\* concatenator.send_left(lhs.pull_changes()).for_each(|edit| concatenated.edit(edit))
SendLeft ==
    \E taken \in {take_changes(lhs.changes)} :
    \E out \in {send_changes(start_run(concatenated, left_len), "left", left_len,
                             lhs.rope, taken.pending_changes,
                             Len(taken.pending_changes))} :
        /\ ConcatRunning
        /\ lhs' = Pulled(lhs, taken, out)
        /\ Sent("left", out)
        /\ UNCHANGED <<alone, ops, rhs>>

\* concatenator.send_right(rhs.pull_changes()).for_each(|edit| concatenated.edit(edit))
SendRight ==
    \E taken \in {take_changes(rhs.changes)} :
    \E out \in {send_changes(start_run(concatenated, left_len), "right", left_len,
                             rhs.rope, taken.pending_changes,
                             Len(taken.pending_changes))} :
        /\ ConcatRunning
        /\ rhs' = Pulled(rhs, taken, out)
        /\ Sent("right", out)
        /\ UNCHANGED <<alone, ops, lhs>>

NextConcat == EditLeft \/ EditRight \/ SendLeft \/ SendRight

SpecConcat == InitConcat /\ [][NextConcat]_vars

-----------------------------------------------------------------------------
(* The state machine of a comparison: two AttributedRopes, edited one at a
   time and compared with == *)

\* The contents the two ropes of a comparison start with
EqInitCells == {<<>>, <<1, 2, 3>>}

InitEq ==
    /\ rope \in {RopeFrom(cells) : cells \in EqInitCells}
    /\ other \in {RopeFrom(cells) : cells \in EqInitCells}
    /\ before = rope
    /\ op = NoOp
    /\ ops = 0
    /\ changes = <<>>
    /\ notified = 0
    /\ waiting = FALSE
    /\ snapshot = rope
    /\ previous = rope
    /\ pulled = <<>>
    /\ pulls = 0
    /\ InitConcatenation
    /\ compared = NotCompared
    /\ InitPushing
    /\ InitMarking
    /\ InitStepping

\* What an operation on one of the two ropes leaves alone
uncompared == <<before, changes, notified, waiting, snapshot, previous, pulled, pulls, concatenation, pushing, marking, stepping>>

CanEditEq == ops < MaxEqOps /\ rope.halt = "none" /\ other.halt = "none"

\* An operation on one of the two ropes ends
EqEdited(this_op) ==
    /\ op' = this_op
    /\ ops' = ops + 1
    /\ compared' = NotCompared
    /\ UNCHANGED uncompared

\* rope.edit(action)
EditSelf ==
    \E action \in EditActions(NewCells) :
        /\ CanEditEq /\ Within(rope, action.start, action.end)
        /\ rope' = Outcome(edit(rope, action), rope)
        /\ other' = other
        /\ EqEdited([kind |-> EditKind(action), start |-> action.start,
                     end |-> action.end, cells |-> action.cells, attr |-> action.attr])

\* other.edit(action)
EditOther ==
    \E action \in EditActions(NewCells) :
        /\ CanEditEq /\ Within(other, action.start, action.end)
        /\ other' = Outcome(edit(other, action), other)
        /\ rope' = rope
        /\ EqEdited([kind |-> EditKind(action), start |-> action.start,
                     end |-> action.end, cells |-> action.cells, attr |-> action.attr])

\* rope.split_at(pos)
SplitSelf ==
    \E pos \in Positions :
        /\ CanEditEq /\ Within(rope, pos, pos)
        /\ rope' = Outcome(split_at(rope, pos), rope)
        /\ other' = other
        /\ EqEdited([kind |-> "split_at", start |-> pos, end |-> pos,
                     cells |-> <<>>, attr |-> 0])

\* other.split_at(pos)
SplitOther ==
    \E pos \in Positions :
        /\ CanEditEq /\ Within(other, pos, pos)
        /\ other' = Outcome(split_at(other, pos), other)
        /\ rope' = rope
        /\ EqEdited([kind |-> "split_at", start |-> pos, end |-> pos,
                     cells |-> <<>>, attr |-> 0])

\* rope == other, and other == rope
Compare ==
    /\ rope.halt = "none" /\ other.halt = "none"
    /\ compared' = [ab |-> eq(rope, other), ba |-> eq(other, rope), done |-> TRUE]
    /\ UNCHANGED <<rope, other, op, ops, uncompared>>

NextEq == EditSelf \/ EditOther \/ SplitSelf \/ SplitOther \/ Compare

SpecEq == InitEq /\ [][NextEq]_vars

-----------------------------------------------------------------------------
(* The state machine of a push rope over an AttributedRope *)

\* The contents of the base rope a push rope is built over
PushInitCells == {<<>>, <<1, 2, 3>>}

\* PushBeforeRope::from(AttributedRope::from(cells), push_fn), or PushAfterRope::from
InitPush ==
    /\ rope \in {RopeFrom(cells) : cells \in PushInitCells}
    /\ push_kind \in {"before", "after"}
    /\ pushed = <<>>
    /\ before = rope
    /\ op = NoOp
    /\ ops = 0
    /\ changes = <<>>
    /\ notified = 0
    /\ waiting = FALSE
    /\ snapshot = rope
    /\ previous = rope
    /\ pulled = <<>>
    /\ pulls = 0
    /\ InitConcatenation
    /\ InitComparison
    /\ InitMarking
    /\ InitStepping

CanPush == ops < MaxPushOps /\ rope.halt = "none"

\* A call on the push rope ends: push_fn has been called as often as the call
\* made it, and the base rope is what the call left, or as it was and marked
\* with the outcome
Pushed(result, method, action) ==
    /\ rope' = Outcome(result.rope, rope)
    /\ pushed' = pushed \o result.calls
    /\ op' = [kind |-> method, start |-> action.start, end |-> action.end,
              cells |-> action.cells, attr |-> action.attr]
    /\ before' = rope
    /\ ops' = ops + 1
    /\ UNCHANGED <<tracker, concatenation, comparison, push_kind, marking, stepping>>

PushReplace ==
    \E start \in Positions, end \in Positions, new_cells \in NewCells :
        /\ CanPush /\ start <= end
        /\ Pushed(push_replace(push_kind, rope, start, end, new_cells),
                  "replace", ReplaceAction(start, end, new_cells))

PushSetAttributes ==
    \E start \in Positions, end \in Positions, new_attributes \in Attributes :
        /\ CanPush /\ start <= end
        /\ Pushed(push_set_attributes(push_kind, rope, start, end, new_attributes),
                  "set_attributes", SetAttributesAction(start, end, new_attributes))

PushReplaceAttributes ==
    \E start \in Positions, end \in Positions, new_cells \in NewCells,
       new_attributes \in Attributes :
        /\ CanPush /\ start <= end
        /\ Pushed(push_replace_attributes(push_kind, rope, start, end, new_cells,
                                          new_attributes),
                  "replace_attributes",
                  ReplaceAttributesAction(start, end, new_cells, new_attributes))

PushEdit ==
    \E action \in EditActions(NewCells) :
        /\ CanPush /\ action.start <= action.end
        /\ Pushed(push_edit(push_kind, rope, action), EditKind(action), action)

NextPush == PushReplace \/ PushSetAttributes \/ PushReplaceAttributes \/ PushEdit

SpecPush == InitPush /\ [][NextPush]_vars

-----------------------------------------------------------------------------
(* The state machine of mark_change called alone, as the unit tests of
   pull_rope.rs call it: the ranges lie in a rope of which only the length
   matters *)

\* The pending changes after mark_change(5..10, 10, false) and
\* mark_change(20..25, 5, false) on a new PullRope
TwoChanges ==
    mark_change(mark_change(<<>>, 5, 10, 10, FALSE).changes, 20, 25, 5, FALSE).changes

\* The ranges given to mark_change: those of the small positions, and the 5..45
\* of the unit tests
MarkRanges ==
    {[start |-> start, end |-> end] : start \in Positions, end \in Positions}
        \cup {[start |-> 5, end |-> 45]}

\* A new PullRope over a rope of 0 or 3 cells, or the one of the unit tests
\* after its first two calls, the rope being 45 cells long by then
InitMark ==
    /\ \/ changes = <<>> /\ tracked_len \in {0, 3}
       \/ changes = TwoChanges /\ tracked_len = 45
    /\ mark_dbg = FALSE
    /\ rope = RopeFrom(<<>>)
    /\ before = rope
    /\ op = NoOp
    /\ ops = 0
    /\ notified = 0
    /\ waiting = FALSE
    /\ snapshot = rope
    /\ previous = rope
    /\ pulled = <<>>
    /\ pulls = 0
    /\ InitConcatenation
    /\ InitComparison
    /\ InitPushing
    /\ InitStepping

\* What mark_change called alone leaves alone
unmarked ==
    <<rope, before, notified, waiting, snapshot, previous, pulled, pulls, concatenation, comparison, pushing, stepping>>

\* mark_change(start..end, new_length, attribute_change), within the rope
Mark ==
    \E range \in MarkRanges, new_length \in 0..MaxNewLen, attribute_change \in BOOLEAN :
        /\ ops < MaxMarks
        /\ range.start <= range.end /\ range.end <= tracked_len
        /\ \E marked \in {mark_change(changes, range.start, range.end, new_length,
                                       attribute_change)} :
            /\ changes' = marked.changes
            /\ mark_dbg' = marked.dbg
        /\ tracked_len' = tracked_len - (range.end - range.start) + new_length
        /\ op' = [kind |-> "mark_change", start |-> range.start, end |-> range.end,
                  cells |-> [i \in 1..new_length |-> 9],
                  attr |-> IF attribute_change THEN 1 ELSE 0]
        /\ ops' = ops + 1
        /\ UNCHANGED unmarked

\* pull_changes, as far as the pending changes go
MarkPull ==
    /\ changes # <<>>
    /\ changes' = take_changes(changes).changes
    /\ op' = [kind |-> "pull_changes", start |-> 0, end |-> 0, cells |-> <<>>, attr |-> 0]
    /\ mark_dbg' = FALSE
    /\ UNCHANGED <<tracked_len, ops, unmarked>>

NextMark == Mark \/ MarkPull

SpecMark == InitMark /\ [][NextMark]_vars

-----------------------------------------------------------------------------
(* Definitions shared by the properties *)

\* The claims' "0 <= start <= end <= len()", len() being what the rope reports
InRange(r, start, end) == start <= end /\ ULe(end, rope_len(r))

\* old[0..start] ++ new ++ old[end..]
Spliced(old, start, end, new) ==
    SubSeq(old, 1, start) \o new \o SubSeq(old, end + 1, Len(old))

\* The Branch nodes reachable from a node
RECURSIVE branches_below(_, _)
branches_below(r, idx) ==
    LET node == NodeAt(r, idx) IN
    IF node.kind = "Branch"
    THEN {idx} \cup branches_below(r, node.left) \cup branches_below(r, node.right)
    ELSE {}

\* Every reachable Branch's length is the sum of its children's lengths
BranchLengthsOK(r) ==
    \A b \in branches_below(r, r.root_node_idx) :
        NodeAt(r, b).length = node_len(NodeAt(r, NodeAt(r, b).left))
                                + node_len(NodeAt(r, NodeAt(r, b).right))

Returned == rope.halt = "none"

-----------------------------------------------------------------------------
(* Properties *)

\* C1 (as claimed): replace(start..end, new_cells) with start <= end <= len()
\* returns and leaves the in-order cell sequence equal to
\* old[0..start] ++ new_cells ++ old[end..].
C1_ReplaceSplices ==
    (op.kind = "replace" /\ InRange(before, op.start, op.end))
        => /\ Returned
           /\ Cells(rope) = Spliced(Cells(before), op.start, op.end, op.cells)

\* C2 (as claimed): after any sequence of edits every reachable Branch's length
\* is the sum of its children's lengths, and len() is the number of cells held
\* in the reachable leaves.
C2_BranchLengths ==
    Returned => BranchLengthsOK(rope) /\ rope_len(rope) = Len(Cells(rope))

\* The attribute of the cell at position p (counted from 0) of the in-order
\* cell sequence: the attribute of the leaf that holds it
AttrAt(r, p) == Attrs(r)[p + 1]

\* The positions that hold a cell
CellPositions(r) == 0..(Len(Cells(r)) - 1)

\* C5 (as claimed): set_attributes(a..b, X) with a < b <= len() returns, gives
\* every position of [a, b) the attribute X, leaves every other position's
\* attribute alone, and leaves the cell sequence and len() unchanged.
C5_SetAttributes ==
    (op.kind = "set_attributes" /\ op.start < op.end
                                /\ InRange(before, op.start, op.end))
        => /\ Returned
           /\ Cells(rope) = Cells(before)
           /\ rope_len(rope) = rope_len(before)
           /\ \A p \in CellPositions(rope) :
                AttrAt(rope, p) = IF op.start <= p /\ p < op.end
                                  THEN op.attr ELSE AttrAt(before, p)

\* C6 (as claimed): set_attributes returns for every range, having created
\* finitely many nodes: no call is left running forever.
C6_SetAttributesTerminates ==
    op.kind = "set_attributes" => rope.halt # "hang"

\* C7 (as claimed): replace_attributes(a..b, new_cells, X) with a <= b <= len()
\* returns with the cells old[0..a] ++ new_cells ++ old[b..], with len() equal
\* to old len - (b - a) + |new_cells|, with the attribute X on the positions
\* a .. a+|new_cells|, and with every other cell's attribute kept.
C7_ReplaceAttributes ==
    (op.kind = "replace_attributes" /\ InRange(before, op.start, op.end))
        => /\ Returned
           /\ Cells(rope) = Spliced(Cells(before), op.start, op.end, op.cells)
           /\ rope_len(rope) = rope_len(before) - (op.end - op.start) + Len(op.cells)
           /\ \A p \in CellPositions(rope) :
                AttrAt(rope, p) =
                    IF p < op.start THEN AttrAt(before, p)
                    ELSE IF p < op.start + Len(op.cells) THEN op.attr
                    ELSE AttrAt(before, p - Len(op.cells) + (op.end - op.start))

\* C8 (as claimed): for every pos < len(), read_attributes(pos) returns an
\* extent with extent.start <= pos < extent.end and the attribute of the cell
\* at pos.
C8_ReadAttributesAtPos ==
    Returned =>
        \A pos \in CellPositions(rope) :
            ULt(pos, rope_len(rope)) =>
                LET ra == read_attributes(rope, pos) IN
                /\ ~ra.panic
                /\ ra.start <= pos /\ pos < ra.end
                /\ ra.attr = AttrAt(rope, pos)

\* C9 (as claimed): every cell inside the extent of read_attributes(pos) lies
\* in a leaf with the returned attribute, and the extent's end is len() or the
\* position of a cell with a different attribute.
C9_ExtentHomogeneousMaximal ==
    Returned =>
        \A pos \in CellPositions(rope) :
            ULt(pos, rope_len(rope)) =>
                LET ra == read_attributes(rope, pos) IN
                /\ ~ra.panic
                /\ \A q \in ra.start..(ra.end - 1) :
                        q \in CellPositions(rope) /\ AttrAt(rope, q) = ra.attr
                /\ \/ ra.end = rope_len(rope)
                   \/ /\ ra.end \in CellPositions(rope)
                      /\ AttrAt(rope, ra.end) # ra.attr

\* The ranges read back: the starts and ends of the edits, and ends at and past
\* the end of the rope
ReadEnds(r) == 0..(MaxPos + 1) \cup {rope_len(r), rope_len(r) + 1}

\* C10 (as claimed): read_cells(a..b) with a <= b yields the cells at the
\* positions a .. min(b, len()) of the in-order cell sequence.
C10_ReadCells ==
    Returned =>
        \A a \in 0..(MaxPos + 1) : \A b \in ReadEnds(rope) :
            (a >= 0 /\ b >= 0 /\ a <= b) =>
                read_cells(rope, a, b).cells
                    = SubSeq(Cells(rope), a + 1, UMin(b, rope_len(rope)))

\* A Replace or ReplaceAttributes action applied to a cell sequence, its range
\* clamped to the sequence
ApplyToCells(cells, action) ==
    LET start == UMin(action.start, Len(cells))
        end   == UMax(start, UMin(action.end, Len(cells)))
    IN  Spliced(cells, start, end, action.cells)

\* The actions applied to a cell sequence, in order
RECURSIVE ReplayCells(_, _)
ReplayCells(cells, actions) ==
    IF actions = <<>> THEN cells
    ELSE ReplayCells(ApplyToCells(cells, Head(actions)), Tail(actions))

\* The actions applied to a rope with edit, in order
RECURSIVE Replay(_, _)
Replay(r, actions) ==
    IF actions = <<>> \/ r.halt # "none" THEN r
    ELSE Replay(edit(r, Head(actions)), Tail(actions))

\* C3 (as claimed): the actions pull_changes yields, applied in the order
\* yielded to the cell sequence as it was at the previous pull, give the
\* current cell sequence of the rope.
C3_CellRoundTrip ==
    op.kind = "pull_changes"
        => /\ Returned
           /\ ReplayCells(Cells(previous), pulled) = Cells(rope)

\* C4 (as claimed): the actions pull_changes yields, replayed in the order
\* yielded on a copy of the rope as it was at the previous pull, give a rope
\* in which every position has the attribute it has in the edited rope.
C4_AttributeRoundTrip ==
    op.kind = "pull_changes"
        => /\ Returned
           /\ Replay(previous, pulled).halt = "none"
           /\ Attrs(Replay(previous, pulled)) = Attrs(rope)

\* A position clamped to [0, len()]
Clamped(r, pos) == UMin(pos, rope_len(r))

\* C11 (as claimed): replace, replace_attributes and set_attributes called with
\* start <= end and the end beyond len() return, replace and replace_attributes
\* leaving the cells they would leave for the range clamped to [0, len()] (so a
\* replace that starts beyond len() appends); read_cells of a range that reaches
\* beyond len() yields what it yields for the clamped range, and read_attributes
\* of a position beyond len() does not panic.
C11_OutOfRangeClamped ==
    /\ (op.kind \in {"replace", "replace_attributes", "set_attributes"}
            /\ op.start <= op.end /\ ULt(rope_len(before), op.end))
        => /\ Returned
           /\ op.kind # "set_attributes" =>
                Cells(rope) = Spliced(Cells(before), Clamped(before, op.start),
                                      Clamped(before, op.end), op.cells)
    /\ Returned =>
        \A a \in 0..(MaxPos + 1) : \A b \in a..(MaxPos + 1) :
            ULt(rope_len(rope), b) =>
                /\ read_cells(rope, a, b).cells
                     = read_cells(rope, Clamped(rope, a), Clamped(rope, b)).cells
                /\ ~read_attributes(rope, b).panic

\* A position between two cells that have different attributes
RunBoundary(r, pos) ==
    /\ 1 <= pos /\ pos < Len(Cells(r))
    /\ AttrAt(r, pos - 1) # AttrAt(r, pos)

\* C12 (as claimed): replace(start..end, new_cells) with start <= end <= len()
\* and start on the boundary between two runs of different attributes returns,
\* gives the new cells the attribute of the run on the left, leaves the cells to
\* the left with their attributes, and the extent read_attributes reports for
\* the left run ends |new_cells| further to the right (or further, when the
\* replacement leaves a cell of the same attribute next to the new cells).
C12_BoundaryTakesLeft ==
    (op.kind = "replace" /\ InRange(before, op.start, op.end)
                         /\ RunBoundary(before, op.start))
        => /\ Returned
           /\ \A p \in 0..(op.start + Len(op.cells) - 1) :
                /\ p \in CellPositions(rope)
                /\ AttrAt(rope, p) = AttrAt(before, IF p < op.start THEN p ELSE op.start - 1)
           /\ \/ read_attributes(rope, op.start - 1).end
                    = read_attributes(before, op.start - 1).end + Len(op.cells)
              \/ \* the whole right run was replaced, and the left run now meets
                 \* a run of its own attribute
                 /\ op.start + Len(op.cells) \in CellPositions(rope)
                 /\ AttrAt(rope, op.start + Len(op.cells)) = AttrAt(before, op.start - 1)

\* The number of cells held in the leaves to the left of a leaf
RECURSIVE cells_left_of(_, _, _)
cells_left_of(r, leaves, leaf_idx) ==
    IF leaves = <<>> \/ Head(leaves) = leaf_idx THEN 0
    ELSE Len(NodeAt(r, Head(leaves)).cells) + cells_left_of(r, Tail(leaves), leaf_idx)

\* Where replace puts its new cells: the position in the in-order cell
\* sequence of the place start resolves to in the leaf find_leaf gives for it
SplicePos(r, start) ==
    LET found == find_leaf(r, start) IN
    cells_left_of(r, Leaves(r), found.idx)
        + UMin(start - found.offset, node_len(NodeAt(r, found.idx)))

\* A replace of a non-empty range by at least one cell has returned
ReplacedSome ==
    /\ op.kind = "replace" /\ InRange(before, op.start, op.end)
    /\ op.start < op.end /\ op.cells # <<>>
    /\ Returned

\* C13 (as claimed): replace of a non-empty range gives the new cells the
\* attribute of the cell that was at range.start before the edit.
C13_FirstCellAttribute ==
    (ReplacedSome /\ op.start \in CellPositions(before))
        => \A i \in 1..Len(op.cells) :
                /\ SplicePos(before, op.start) + i <= Len(Cells(rope))
                /\ Attrs(rope)[SplicePos(before, op.start) + i] = AttrAt(before, op.start)

\* The number of cells an edit puts in place of its range
NewLength(edit_op) ==
    IF edit_op.kind = "set_attributes" THEN RangeLen(edit_op.start, edit_op.end)
    ELSE Len(edit_op.cells)

\* An edit's range lies inside the new_range of a pending change
InsideChange(change, start, end) ==
    /\ change.new_range.start <= start /\ start < change.new_range.end
    /\ end <= change.new_range.end

\* The two ranges of every pending change
ChangeRanges(pending) ==
    [j \in 1..Len(pending) |->
        [original_range |-> pending[j].original_range, new_range |-> pending[j].new_range]]

\* The ranges after an edit inside the change i that changes the length by delta
CoalescedRanges(pending, i, delta) ==
    [j \in 1..Len(pending) |->
        [original_range |-> pending[j].original_range,
         new_range      |->
            [start |-> pending[j].new_range.start + (IF j > i THEN delta ELSE 0),
             end   |-> pending[j].new_range.end + (IF j >= i THEN delta ELSE 0)]]]

\* A tracked edit has returned in this step
EditReturns == ops' = ops + 1 /\ rope'.halt = "none"

\* C14 (as claimed): an edit whose range lies inside the new_range of a pending
\* change leaves the list with the same entries, the original ranges unchanged,
\* that change's new_range.end moved by (new_length - |range|) and every later
\* new_range shifted by the same amount, also when the edit inserts more cells
\* than remain between its start and the end of the change.
C14_Coalescing ==
    [][EditReturns =>
        \A i \in 1..Len(changes) :
            InsideChange(changes[i], op'.start, op'.end) =>
                ChangeRanges(changes')
                    = CoalescedRanges(changes, i,
                          NewLength(op') - RangeLen(op'.start, op'.end))]_vars

-----------------------------------------------------------------------------
(* Pulling twice *)

\* The two ways pull_changes is used: its iterator consumed, or dropped
PullKinds == {"pull_changes", "pull_dropped"}

\* A call of pull_changes returns (and, consumed, its iterator ends)
PullReturns == op'.kind \in PullKinds /\ pulls' = pulls + 1

\* C15 (as claimed): pull_changes empties the pending list when it is called,
\* whether its iterator is consumed or dropped; a pull_changes that follows
\* another with no edit in between, or that finds no pending change, yields no
\* action.
C15_PullEmptiesPending ==
    [][PullReturns =>
         /\ changes' = <<>>
         /\ (op'.kind = "pull_changes" /\ (pulls > 0 \/ changes = <<>>)
                => pulled' = <<>>)]_vars

\* One edit left a pending change, and pull_changes was then called twice
C15_Witness ==
    /\ ops = 1 /\ notified = 1 /\ pulls = 2
    /\ op.kind = "pull_changes" /\ Returned
    /\ changes = <<>> /\ pulled = <<>>

-----------------------------------------------------------------------------
(* The notification callback *)

\* A tracked edit returns
TrackedEditReturns == ops' = ops + 1 /\ rope'.halt = "none"

\* C16 (as claimed): pull_fn is called exactly once for each transition from no
\* pending change to at least one: once by the first edit after construction
\* or after a pull_changes, and by no other edit; pull_changes never calls it.
C16_NotifiedOncePerTransition ==
    [][/\ TrackedEditReturns =>
            /\ notified' = IF changes = <<>> THEN notified + 1 ELSE notified
            /\ changes' # <<>>
       /\ PullReturns => notified' = notified]_vars

\* An edit, a pull_changes and another edit: two calls of pull_fn
C16_Witness ==
    /\ ops = 2 /\ notified = 2 /\ pulls = 0
    /\ op.kind \in {"replace", "set_attributes", "replace_attributes"}
    /\ changes # <<>> /\ Returned

-----------------------------------------------------------------------------
(* The order of the pulled actions *)

\* A range that holds no position
EmptyRange(range) == ~ULt(range.start, range.end)

\* A pending change with nothing removed and nothing added
BothEmpty(change) == EmptyRange(change.original_range) /\ EmptyRange(change.new_range)

\* The actions of the changes pending[from..Len(pending)], the last change
\* first, each change's actions together, the changes with two empty ranges left out
RECURSIVE LastToFirst(_, _, _)
LastToFirst(r, pending, from) ==
    IF from > Len(pending) THEN <<>>
    ELSE LastToFirst(r, pending, from + 1)
            \o (IF BothEmpty(pending[from]) THEN <<>>
                ELSE change_actions(r, pending[from]).actions)

\* The iterator of a pull_changes is run to its end
PullConsumed == op'.kind = "pull_changes" /\ pulls' = pulls + 1

\* C17 (as claimed): pull_changes yields the pending changes from last to
\* first, which is by descending new_range.start, the actions of one change
\* together; a change is left out exactly when both its ranges are empty, so
\* every other change yields at least one action, and a change with an empty
\* new_range and a non-empty original_range yields one Replace of
\* original_range with no cells.
C17_PullOrder ==
    [][PullConsumed =>
         /\ pulled' = LastToFirst(rope, changes, 1)
         /\ \A i \in 1..Len(changes) :
              /\ ~BothEmpty(changes[i]) => change_actions(rope, changes[i]).actions # <<>>
              /\ i > 1 => changes[i - 1].new_range.start <= changes[i].new_range.start
              /\ (~EmptyRange(changes[i].original_range)
                     /\ EmptyRange(changes[i].new_range))
                   => change_actions(rope, changes[i]).actions
                        = <<ReplaceAction(changes[i].original_range.start,
                                          changes[i].original_range.end, <<>>)>>]_vars

\* Two pending changes were pulled, the one to the right first
C17_Witness ==
    /\ op.kind = "pull_changes" /\ Returned /\ pulls = 1
    /\ Len(pulled) = 2
    /\ pulled[1].start > pulled[2].start

-----------------------------------------------------------------------------
(* Concatenation *)

\* Every batch of both sides was sent and applied
AllSent ==
    /\ lhs.rope.halt = "none" /\ rhs.rope.halt = "none"
    /\ lhs.changes = <<>> /\ rhs.changes = <<>>

\* C18 (as claimed): when every pulled batch of the left and of the right
\* PullRope has gone through send_left or send_right and been applied in the
\* order yielded, the third rope holds the cells of the left rope followed by
\* the cells of the right rope.
C18_Concatenation ==
    AllSent => /\ concatenated.halt = "none"
               /\ Cells(concatenated) = Cells(lhs.rope) \o Cells(rhs.rope)

\* An action with its range moved right by offset, and nothing else changed
Rebased(item, offset) ==
    [kind |-> item.kind, start |-> item.start + offset, end |-> item.end + offset,
     cells |-> item.cells, attr |-> item.attr]

\* C19 (as claimed): the concatenator yields one action for each action it is
\* given, in the order given: send_left yields each action as it is, and
\* send_right yields each action with left_len, as it was at the call, added to
\* both ends of its range and its kind, cells and attribute as they are.
C19_OneToOne ==
    /\ sent.side # "none" => Len(sent.actions) = Len(sent.items)
    /\ sent.side = "left" =>
          \A i \in 1..Len(sent.items) : sent.actions[i] = sent.items[i]
    /\ sent.side = "right" =>
          \A i \in 1..Len(sent.items) :
              sent.actions[i] = Rebased(sent.items[i], sent.left_len)

\* A batch of two different actions went through send_right when the left
\* side was not empty
C19_Witness ==
    /\ sent.side = "right" /\ sent.left_len > 0
    /\ Len(sent.items) = 2 /\ sent.items[1] # sent.items[2]
    /\ concatenated.halt = "none"

-----------------------------------------------------------------------------
(* Equality *)

\* Two ropes with the same length, the same cell and the same attribute at
\* every position
SameContents(a, b) ==
    /\ rope_len(a) = rope_len(b)
    /\ Cells(a) = Cells(b)
    /\ Attrs(a) = Attrs(b)

\* C20 (as claimed): == on two ropes returns, in both argument orders, and it
\* returns true exactly when the two ropes have the same length, the same cell
\* at every position and the same attribute at every position, however their
\* leaves are divided.
C20_Equality ==
    compared.done =>
        /\ compared.ab.halt = "none" /\ compared.ba.halt = "none"
        /\ compared.ab.equal = SameContents(rope, other)
        /\ compared.ba.equal = SameContents(other, rope)

-----------------------------------------------------------------------------
(* Push ropes *)

\* The action an operation stands for
ActionOf(edit_op) ==
    CASE edit_op.kind = "replace" ->
            ReplaceAction(edit_op.start, edit_op.end, edit_op.cells)
      [] edit_op.kind = "set_attributes" ->
            SetAttributesAction(edit_op.start, edit_op.end, edit_op.attr)
      [] edit_op.kind = "replace_attributes" ->
            ReplaceAttributesAction(edit_op.start, edit_op.end, edit_op.cells, edit_op.attr)

\* C21 (as claimed): an edit on a push rope, through edit or through replace,
\* set_attributes or replace_attributes, calls the callback exactly once, with
\* an action equal to the edit, and applies the edit to the base rope: a
\* PushBeforeRope makes the call while the base rope is as it was before the
\* edit, a PushAfterRope when the base rope has been changed and has returned.
C21_PushOncePerEdit ==
    [][(push_kind # "none" /\ ops' = ops + 1) =>
         /\ rope' = Outcome(edit(rope, ActionOf(op')), rope)
         /\ push_kind = "before" =>
                pushed' = Append(pushed, [action |-> ActionOf(op'), seen |-> rope])
         /\ (push_kind = "after" /\ rope'.halt = "none") =>
                pushed' = Append(pushed, [action |-> ActionOf(op'), seen |-> rope'])]_vars

\* Two edits on a PushAfterRope, the second of which changed the base rope
C21_Witness ==
    /\ push_kind = "after" /\ ops = 2 /\ Returned
    /\ Len(pushed) = 2
    /\ pushed[2].action = ActionOf(op)
    /\ pushed[2].seen = rope /\ Cells(rope) # Cells(before)

-----------------------------------------------------------------------------
(* The pending changes of a PullRope *)

\* Ranges with start <= end, each ending where the next starts or before
Ascending(ranges) ==
    \A i \in 1..Len(ranges) :
        /\ ULe(ranges[i].start, ranges[i].end)
        /\ i > 1 => ULe(ranges[i - 1].end, ranges[i].start)

\* C22 (as claimed): the new_ranges of the pending changes are in ascending
\* order and do not overlap: each has start <= end, and each ends where the
\* next starts or before.
C22_NewRangesAscending ==
    Ascending([i \in 1..Len(changes) |-> changes[i].new_range])

\* Three changes are pending after a call of mark_change, apart from each other
C22_Witness ==
    /\ op.kind = "mark_change" /\ Len(changes) = 3
    /\ changes[1].new_range.end < changes[2].new_range.start
    /\ changes[2].new_range.end < changes[3].new_range.start

\* C23 (as claimed): the original_ranges of the pending changes are in
\* ascending order and do not overlap: each has start <= end, and each ends
\* where the next starts or before.
C23_OriginalRangesAscending ==
    Ascending([i \in 1..Len(changes) |-> changes[i].original_range])

\* C24 (as claimed): untouched gaps have the same length in both coordinate
\* systems: the first pending change has new_range.start =
\* original_range.start, and between two consecutive pending changes the gap
\* between the new_ranges is as long as the gap between the original_ranges.
C24_GapsMatch ==
    /\ changes # <<>> => changes[1].new_range.start = changes[1].original_range.start
    /\ \A i \in 2..Len(changes) :
          changes[i].new_range.start - changes[i - 1].new_range.end
              = changes[i].original_range.start - changes[i - 1].original_range.end

\* The sum over the first idx pending changes of |new_range| - |original_range|
RECURSIVE length_change(_, _)
length_change(pending, idx) ==
    IF idx = 0 THEN 0
    ELSE length_change(pending, idx - 1)
             + range_len(pending[idx].new_range) - range_len(pending[idx].original_range)

\* C25 (as claimed): the sum over the pending changes of |new_range| -
\* |original_range| is the net length change of the edits made since the last
\* pull: every mark_change(range, new_length) adds new_length - |range| to it.
C25_NetLengthChange ==
    [][op'.kind = "mark_change" =>
         length_change(changes', Len(changes'))
             = length_change(changes, Len(changes))
                   + Len(op'.cells) - (op'.end - op'.start)]_vars

\* The pending changes that hold one of the cells start..end of the rope
Holding(pending, start, end) ==
    {j \in 1..Len(pending) :
        start < pending[j].new_range.end /\ pending[j].new_range.start < end}

\* C26 (as claimed): after an edit that sets attributes, every pending change
\* that holds one of the cells the edit wrote has changed_attributes set,
\* wherever the edit fell; and a change whose flag was set is still pending
\* with the flag set after any edit.
C26_AttributesDirty ==
    [][op'.kind = "mark_change" =>
         /\ op'.attr = 1 =>
                \A j \in Holding(changes', op'.start, op'.start + Len(op'.cells)) :
                    changes'[j].changed_attributes
         /\ \A i \in 1..Len(changes) :
                changes[i].changed_attributes =>
                    \E j \in i..Len(changes') :
                        /\ changes'[j].original_range = changes[i].original_range
                        /\ changes'[j].changed_attributes]_vars

\* A range of positions: 0 <= start <= end, neither of them a wrapped value
ProperRange(range) == 0 <= range.start /\ range.start <= range.end

\* C29 (as claimed): mark_change never takes an unsigned value below zero and
\* never casts a negative value to a position: no subtraction underflows, and
\* both ranges of every pending change have 0 <= start <= end.
C29_NoUnderflow ==
    /\ ~mark_dbg
    /\ \A i \in 1..Len(changes) :
          ProperRange(changes[i].original_range) /\ ProperRange(changes[i].new_range)

-----------------------------------------------------------------------------
(* A shrinking edit across pending changes and gaps *)

\* The range start..end covers the pending changes first..last whole, from the
\* start of the first, with the gaps between them and the gap after the last
\* as far as end
CoversWhole(pending, first, last, start, end) ==
    /\ first <= last
    /\ pending[first].new_range.start = start /\ start < pending[first].new_range.end
    /\ pending[last].new_range.end <= end
    /\ last < Len(pending) =>
           /\ end <= pending[last + 1].new_range.start
           /\ end < pending[last + 1].new_range.end

\* The length of the gap after the pending change k, as far as end when k is
\* the last change covered
GapAfter(pending, k, last, end) ==
    (IF k < last THEN pending[k + 1].new_range.start ELSE end) - pending[k].new_range.end

\* The original ranges expected for the changes k..last and the gaps after
\* them: each change keeps its own, and each gap that is not empty gets the
\* range it had before the edits
RECURSIVE CoveredOriginals(_, _, _, _)
CoveredOriginals(pending, k, last, end) ==
    IF k > last THEN <<>>
    ELSE <<pending[k].original_range>>
         \o (IF GapAfter(pending, k, last, end) > 0
             THEN <<[start |-> pending[k].original_range.end,
                     end   |-> pending[k].original_range.end
                                   + GapAfter(pending, k, last, end)]>>
             ELSE <<>>)
         \o CoveredOriginals(pending, k + 1, last, end)

OriginalRanges(pending) == [i \in 1..Len(pending) |-> pending[i].original_range]

NewRanges(pending) == [i \in 1..Len(pending) |-> pending[i].new_range]

\* The sum of the lengths of the new_ranges of the changes from..to
RECURSIVE NewLengths(_, _, _)
NewLengths(pending, from, to) ==
    IF from > to THEN 0
    ELSE range_len(pending[from].new_range) + NewLengths(pending, from + 1, to)

\* What C27 expects of the pending changes after mark_change(start..end,
\* new_length) covering first..last of the changes pending before it
ShrunkAcross(pending, after, first, last, start, end, new_length) ==
    LET inside == Len(after) - (first - 1) - (Len(pending) - last) IN
    /\ OriginalRanges(after)
           = OriginalRanges(SubSeq(pending, 1, first - 1))
                 \o CoveredOriginals(pending, first, last, end)
                 \o OriginalRanges(SubSeq(pending, last + 1, Len(pending)))
    /\ SubSeq(after, 1, first - 1) = SubSeq(pending, 1, first - 1)
    /\ \A k \in first..(first + inside - 1) :
           /\ start <= after[k].new_range.start
           /\ after[k].new_range.start <= after[k].new_range.end
           /\ after[k].new_range.end <= start + new_length
    /\ NewLengths(after, first, first + inside - 1) = new_length
    /\ \A k \in 1..(Len(pending) - last) :
           after[first - 1 + inside + k] =
               [pending[last + k] EXCEPT
                    !.new_range.start = @ - ((end - start) - new_length),
                    !.new_range.end   = @ - ((end - start) - new_length)]

\* C27 (as claimed): when mark_change(r, n) with n < |r| covers whole pending
\* changes and the gaps between and after them, every covered change keeps
\* its original_range, every covered gap becomes an entry whose original_range
\* is the range the gap had before the edits, the new_range lengths of the
\* entries inside r sum to n, and the entries to the right of r move left by
\* |r| - n.
C27_ShrinkAcross ==
    [][(op'.kind = "mark_change" /\ Len(op'.cells) < op'.end - op'.start) =>
         \A first \in 1..Len(changes), last \in 1..Len(changes) :
             CoversWhole(changes, first, last, op'.start, op'.end)
                 => ShrunkAcross(changes, changes', first, last, op'.start, op'.end,
                                 Len(op'.cells))]_vars

\* C27, the example: with (5..10 -> 5..15) and (15..20 -> 20..25) pending,
\* mark_change(5..45, 1) has left the original ranges 5..10, 10..15, 15..20,
\* 20..40 with the new ranges 5..5, 5..6, 6..6, 6..6
C27_Example ==
    /\ op.kind = "mark_change" /\ op.start = 5 /\ op.end = 45 /\ Len(op.cells) = 1
    /\ ops = 1
    /\ OriginalRanges(changes)
           = <<[start |-> 5, end |-> 10], [start |-> 10, end |-> 15],
               [start |-> 15, end |-> 20], [start |-> 20, end |-> 40]>>
    /\ NewRanges(changes)
           = <<[start |-> 5, end |-> 5], [start |-> 5, end |-> 6],
               [start |-> 6, end |-> 6], [start |-> 6, end |-> 6]>>

-----------------------------------------------------------------------------
(* The attribute runs of a pulled change *)

\* The actions k..Len(actions) hold, the last cells first, the cells of the
\* rope from start_pos up to end_pos, each action with the attribute its cells
\* have in the rope
RECURSIVE RunsBackFrom(_, _, _, _, _)
RunsBackFrom(r, actions, k, start_pos, end_pos) ==
    IF k > Len(actions) THEN end_pos = start_pos
    ELSE LET from == end_pos - Len(actions[k].cells) IN
         /\ start_pos <= from
         /\ actions[k].cells = SubSeq(Cells(r), from + 1, end_pos)
         /\ \A p \in from..(end_pos - 1) : AttrAt(r, p) = actions[k].attr
         /\ RunsBackFrom(r, actions, k + 1, start_pos, from)

\* What C28 expects of the actions of one pending change
AttributeRuns(r, change, emitted) ==
    /\ ~emitted.panic
    /\ emitted.actions # <<>>
    /\ \A k \in 1..Len(emitted.actions) :
          /\ emitted.actions[k].kind = "ReplaceAttributes"
          /\ emitted.actions[k].start = change.original_range.start
          /\ emitted.actions[k].end = IF k = 1 THEN change.original_range.end
                                      ELSE change.original_range.start
    /\ RunsBackFrom(r, emitted.actions, 1, change.new_range.start, change.new_range.end)

\* C28 (as claimed): for a pending change with changed_attributes set and a
\* new_range that is not empty, pull_changes yields ReplaceAttributes actions
\* only, the last attribute run first: the first carries the whole
\* original_range and every later one is an insertion at original_range.start;
\* their cells, in reverse order of emission, are the cells of new_range, and
\* each action's attribute is the one its cells have in the rope.
C28_AttributeRuns ==
    [][op'.kind = "pull_changes" =>
         \A i \in 1..Len(changes) :
             (changes[i].changed_attributes /\ ~EmptyRange(changes[i].new_range))
                 => AttributeRuns(rope, changes[i], change_actions(rope, changes[i]))]_vars

-----------------------------------------------------------------------------
(* The shape of the tree *)

\* The nodes met going down from a node, at most depth levels, a node as often
\* as there are ways down to it
RECURSIVE nodes_below(_, _, _)
nodes_below(r, idx, depth) ==
    IF NodeAt(r, idx).kind = "Branch" /\ depth > 0
    THEN <<idx>> \o nodes_below(r, NodeAt(r, idx).left, depth - 1)
                \o nodes_below(r, NodeAt(r, idx).right, depth - 1)
    ELSE <<idx>>

\* The nodes of below are met once each, and each child of a branch among them
\* has the branch as its parent
TreeOf(r, below) ==
    /\ \A i \in 1..Len(below), j \in 1..Len(below) : below[i] = below[j] => i = j
    /\ \A i \in 1..Len(below) :
          NodeAt(r, below[i]).kind = "Branch" =>
              /\ node_parent(NodeAt(r, NodeAt(r, below[i]).left)) = below[i]
              /\ node_parent(NodeAt(r, NodeAt(r, below[i]).right)) = below[i]

\* C30 (as claimed): after every completed operation the root has no parent,
\* every other reachable node has a parent that is a Branch with the node as
\* its left or right child, and every node is reached from the root by one
\* path only.
C30_TreeShape ==
    Returned =>
        /\ node_parent(NodeAt(rope, rope.root_node_idx)) = None
        /\ TreeOf(rope, nodes_below(rope, rope.root_node_idx, Len(rope.nodes)))

\* Leaves have been split and joined, and the tree has three leaves or more
C30_Witness ==
    /\ Returned /\ op.kind = "replace" /\ rope.free_nodes # <<>>
    /\ Len(nodes_below(rope, rope.root_node_idx, Len(rope.nodes))) >= 5
    /\ Len(Leaves(rope)) >= 3

-----------------------------------------------------------------------------
(* The free slots of the arena *)

\* The slots of the arena that hold Empty
EmptySlots(r) == {idx \in 0..(Len(r.nodes) - 1) : NodeAt(r, idx).kind = "Empty"}

\* The slots on the free-slot list
FreeSlots(r) == {r.free_nodes[i] : i \in 1..Len(r.free_nodes)}

\* The nodes that are met going down from the root
ReachableNodes(r) ==
    {nodes_below(r, r.root_node_idx, Len(r.nodes))[i] :
        i \in 1..Len(nodes_below(r, r.root_node_idx, Len(r.nodes)))}

\* C31 (as claimed): after every completed operation the slots that hold Empty
\* are exactly the slots on the free-slot list, no slot is on the list twice,
\* and no node reachable from the root is Empty, so that store_new_node never
\* writes over a reachable node.
C31_FreeSlots ==
    Returned =>
        /\ EmptySlots(rope) = FreeSlots(rope)
        /\ Cardinality(FreeSlots(rope)) = Len(rope.free_nodes)
        /\ ReachableNodes(rope) \cap EmptySlots(rope) = {}
        /\ ReachableNodes(rope) \cap FreeSlots(rope) = {}

\* A join has freed two slots, and a later split has taken them again
C31_Witness ==
    /\ Returned /\ rope.free_nodes = <<>> /\ before.free_nodes # <<>>
    /\ Len(rope.nodes) = Len(before.nodes)
    /\ Len(Leaves(rope)) > Len(Leaves(before))

-----------------------------------------------------------------------------
(* The join policy *)

\* The places in the in-order sequence of leaves that hold a leaf with no
\* cells and with a leaf to its right
EmptyInner(r) ==
    {i \in 1..(Len(Leaves(r)) - 1) : NodeAt(r, Leaves(r)[i]).cells = <<>>}

\* The places in the in-order sequence of leaves of r that hold a leaf the
\* operation left with no cells and with a leaf to its right: a leaf that was
\* not in the tree of pre, or that held cells there
LeftEmpty(r, pre) ==
    {i \in EmptyInner(r) :
        \A j \in 1..Len(Leaves(pre)) :
            Leaves(pre)[j] = Leaves(r)[i] => NodeAt(pre, Leaves(pre)[j]).cells # <<>>}

\* C32 (as claimed): when replace or replace_attributes returns, every leaf
\* that the operation left without cells and with a leaf to its right has
\* been removed from the tree (with its parent, the sibling taking the
\* parent's place): none of them is among the leaves of the rope.
C32_JoinPolicy ==
    (Returned /\ op.kind \in {"replace", "replace_attributes"})
        => LeftEmpty(rope, before) = {}

-----------------------------------------------------------------------------
(* Splitting a leaf *)

\* split has turned the slot leaf_idx of r, a leaf, into a Branch over two new
\* leaves that hold the leaf's cells before and after split_index
SplitInTwo(r, after, leaf_idx, split_index) ==
    /\ after.halt = "none"
    /\ rope_len(after) = rope_len(r)
    /\ Cells(after) = Cells(r) /\ Attrs(after) = Attrs(r)
    /\ NodeAt(after, leaf_idx).kind = "Branch"
    /\ NodeAt(after, leaf_idx).parent = NodeAt(r, leaf_idx).parent
    /\ NodeAt(after, leaf_idx).length = Len(NodeAt(r, leaf_idx).cells)
    /\ NodeAt(after, NodeAt(after, leaf_idx).left)
           = LeafNode(leaf_idx, SubSeq(NodeAt(r, leaf_idx).cells, 1, split_index),
                      NodeAt(r, leaf_idx).attr)
    /\ NodeAt(after, NodeAt(after, leaf_idx).right)
           = LeafNode(leaf_idx,
                      SubSeq(NodeAt(r, leaf_idx).cells, split_index + 1,
                             Len(NodeAt(r, leaf_idx).cells)),
                      NodeAt(r, leaf_idx).attr)
    /\ NodeAt(after, leaf_idx).left # NodeAt(after, leaf_idx).right

\* C33 (as claimed): splitting a leaf at an offset from 0 to its cell count
\* leaves len(), the cell sequence and the attribute of every cell as they
\* were; the leaf's slot becomes a Branch with the leaf's parent and the
\* leaf's cell count as its length, over two new leaves that hold the cells
\* before and after the offset with the leaf's attribute.
C33_SplitKeepsContents ==
    [][(op'.kind = "split_at"
          /\ NodeAt(rope, find_leaf(rope, op'.start).idx).kind = "Leaf"
          /\ 0 <= op'.start - find_leaf(rope, op'.start).offset
          /\ op'.start - find_leaf(rope, op'.start).offset
                 <= Len(NodeAt(rope, find_leaf(rope, op'.start).idx).cells))
         => SplitInTwo(rope, rope', find_leaf(rope, op'.start).idx,
                       op'.start - find_leaf(rope, op'.start).offset)]_vars

\* A leaf between two others, with an attribute of its own, has been split in
\* the middle
C33_Witness ==
    /\ Returned /\ op.kind = "split_at"
    /\ Len(Leaves(before)) >= 3 /\ Len(Leaves(rope)) = Len(Leaves(before)) + 1
    /\ \E i \in 1..(Len(Leaves(rope)) - 1) :
          /\ NodeAt(rope, Leaves(rope)[i]).cells # <<>>
          /\ NodeAt(rope, Leaves(rope)[i + 1]).cells # <<>>
          /\ NodeAt(rope, Leaves(rope)[i]).parent = NodeAt(rope, Leaves(rope)[i + 1]).parent
          /\ NodeAt(rope, Leaves(rope)[i]).attr = 1
          /\ NodeAt(before, NodeAt(rope, Leaves(rope)[i]).parent).kind = "Leaf"

-----------------------------------------------------------------------------
(* The length of the left-hand side of a concatenation *)

\* The sum over the items from idx on of new cell count - |range|, a
\* SetAttributes counting for nothing
RECURSIVE BatchLengthChange(_, _)
BatchLengthChange(items, idx) ==
    IF idx > Len(items) THEN 0
    ELSE (IF items[idx].kind = "SetAttributes" THEN 0
          ELSE Len(items[idx].cells) - RangeLen(items[idx].start, items[idx].end))
         + BatchLengthChange(items, idx + 1)

\* No item from idx on takes more from left_len than it holds when the item
\* goes through send_left
RECURSIVE NeverBelowZero(_, _, _)
NeverBelowZero(len, items, idx) ==
    IF idx > Len(items) THEN TRUE
    ELSE /\ ULt(item_new_len(items[idx]), RangeLen(items[idx].start, items[idx].end))
              => ULe(RangeLen(items[idx].start, items[idx].end) - item_new_len(items[idx]),
                     len)
         /\ NeverBelowZero(send_left_item(len, items[idx], item_new_len(items[idx]),
                                          RangeLen(items[idx].start, items[idx].end)).left_len,
                           items, idx + 1)

\* C34 (as claimed): after a batch has gone through send_left, left_len has
\* changed by the sum over the batch of new cell count - |range|, has not
\* gone below zero on the way, and is the number of cells of the left rope,
\* whose pulled changes the batch is; send_right leaves left_len as it is.
C34_LeftLen ==
    (op.kind = "send" /\ ConcatRunning) =>
        /\ sent.side = "right" => left_len = sent.left_len
        /\ sent.side = "left" =>
              /\ left_len = sent.left_len + BatchLengthChange(sent.items, 1)
              /\ NeverBelowZero(sent.left_len, sent.items, 1)
              /\ left_len = Len(Cells(lhs.rope))

\* What the whole editing method leaves when it has returned
Whole(called, base, pending) ==
    CASE called.method = "edit" -> PullRope_edit(base, pending, called.action)
      [] called.method = "replace" ->
            PullRope_replace(base, pending, called.action.start, called.action.end,
                             called.action.cells)
      [] called.method = "set_attributes" ->
            PullRope_set_attributes(base, pending, called.action.start,
                                    called.action.end, called.action.attr)
      [] called.method = "replace_attributes" ->
            PullRope_replace_attributes(base, pending, called.action.start,
                                        called.action.end, called.action.cells,
                                        called.action.attr)

\* The change is stored while the base rope still is as the call found it
StoredFirst ==
    (pc = "idle" /\ pc' = "stored") =>
        /\ [rope' EXCEPT !.dbg = rope.dbg] = rope
        /\ marked_from' = changes
        /\ changes' = Whole(call', rope, changes).changes
        /\ notified' = notified /\ seen' = seen

\* The base rope is edited after the change is stored and before pull_fn is called
PassedOnSecond ==
    (pc = "stored" /\ pc' = "passed") =>
        /\ [rope EXCEPT !.dbg = before.dbg] = before
        /\ changes = Whole(call, before, marked_from).changes
        /\ changes' = changes
        /\ rope' = Whole(call, before, marked_from).rope
        /\ notified' = notified /\ seen' = seen

\* pull_fn is called last, with the base rope edited and the change pending
NotifiedLast ==
    (notified' # notified \/ seen' # seen) =>
        /\ pc = "passed" /\ pc' = "idle"
        /\ rope = Whole(call, before, marked_from).rope
        /\ changes = Whole(call, before, marked_from).changes
        /\ notified' = notified + 1
        /\ seen' = Append(seen, [rope |-> rope, changes |-> changes])
        /\ rope' = rope /\ changes' = changes

\* C35: in every editing method of PullRope the change is recorded by
\* mark_change while the base rope is as it was before the edit, then the edit is
\* applied to the base rope, then pull_fn is called if it is called at all: when
\* pull_fn runs the base rope holds the edited content and the pending list
\* holds the change
C35_StoreEditNotify == [][StoredFirst /\ PassedOnSecond /\ NotifiedLast]_vars

\* pull_fn has just been called by an edit that changed the cells of the rope
C35_Witness ==
    /\ pc = "idle" /\ op.kind # "pull_changes" /\ op.kind # "pull_dropped"
    /\ seen # <<>> /\ seen[Len(seen)].rope = rope /\ seen[Len(seen)].changes = changes
    /\ Cells(rope) # Cells(before) /\ changes # <<>>
    /\ call.method \in {"edit", "replace_attributes"}

\* pull_changes runs to its end and yields no action after pull_fn was called
NothingToPull == PullReturns /\ op'.kind = "pull_changes" /\ waiting /\ pulled' = <<>>

\* A returned call that replaces an empty range by no cells while nothing is pending
NothingEdited ==
    /\ TrackedEditReturns /\ changes = <<>>
    /\ op'.kind \in {"replace", "replace_attributes"}
    /\ op'.start = op'.end /\ op'.cells = <<>>

\* C36: whenever pull_fn has been called since the last pull_changes, the next
\* pull_changes yields at least one action; an edit that replaces an empty range
\* by no cells while nothing is pending leaves nothing pending and calls no pull_fn
C36_NotifiedMeansChanges ==
    [][/\ ~NothingToPull
       /\ NothingEdited => (changes' = <<>> /\ notified' = notified /\ ~waiting')]_vars

\* The number of cells in the leaves before the i-th leaf in order
RECURSIVE FirstCell(_, _)
FirstCell(r, i) ==
    IF i <= 1 THEN 0
    ELSE FirstCell(r, i - 1) + Len(NodeAt(r, Leaves(r)[i - 1]).cells)

\* The i-th leaf in order holds position p, or ends or begins at it
Holds(r, i, p) ==
    FirstCell(r, i) <= p /\ p <= FirstCell(r, i) + Len(NodeAt(r, Leaves(r)[i]).cells)

\* find_leaf(p) gives the leftmost leaf in order that holds p, and the position
\* of its first cell
FoundLeftmost(r, p) ==
    \E i \in 1..Len(Leaves(r)) :
        /\ find_leaf(r, p).idx = Leaves(r)[i]
        /\ NodeAt(r, Leaves(r)[i]).kind = "Leaf"
        /\ find_leaf(r, p).offset = FirstCell(r, i)
        /\ Holds(r, i, p)
        /\ \A j \in 1..(i - 1) : ~Holds(r, j, p)

\* C37: in every rope reached by the public edits, for every position p from 0
\* to len(), find_leaf(p) returns a leaf reachable from the root and the
\* position of its first cell, with offset <= p <= offset + the leaf's cell
\* count, and of two leaves that meet at p the one on the left
C37_FindLeaf ==
    Returned =>
        \A p \in 0..(Len(Cells(rope)) + 2) :
            (p <= rope_len(rope) /\ rope_len(rope) >= 0) => FoundLeftmost(rope, p)

\* The leaves next_leaf_to_the_right visits from a leaf on, at most fuel of them
RECURSIVE FollowRight(_, _, _)
FollowRight(r, leaf_idx, fuel) ==
    IF leaf_idx = None \/ fuel = 0 THEN <<>>
    ELSE <<leaf_idx>> \o FollowRight(r, next_leaf_to_the_right(r, leaf_idx).idx, fuel - 1)

\* The leaf that follows the i-th leaf in order, None after the last
Successor(r, i) == IF i = Len(Leaves(r)) THEN None ELSE Leaves(r)[i + 1]

\* C38: for every leaf reachable from the root next_leaf_to_the_right returns
\* the leaf that follows it in order, and None exactly for the rightmost leaf;
\* followed from the leftmost leaf it visits every reachable leaf once, in
\* order, and ends
C38_NextLeaf ==
    Returned =>
        /\ \A i \in 1..Len(Leaves(rope)) :
              /\ next_leaf_to_the_right(rope, Leaves(rope)[i]).idx = Successor(rope, i)
              /\ (next_leaf_to_the_right(rope, Leaves(rope)[i]).idx = None)
                     <=> (i = Len(Leaves(rope)))
        /\ FollowRight(rope, descend_left(rope, rope.root_node_idx),
                       Len(rope.nodes) + 1) = Leaves(rope)

\* A rope of at least three leaves below two levels of branches, after an edit
C38_Witness ==
    /\ Returned /\ ops > 0 /\ Len(Leaves(rope)) >= 3
    /\ \E i \in 1..(Len(Leaves(rope)) - 1) :
          /\ next_leaf_to_the_right(rope, Leaves(rope)[i]).idx = Leaves(rope)[i + 1]
          /\ NodeAt(rope, Leaves(rope)[i]).parent # NodeAt(rope, Leaves(rope)[i + 1]).parent
    /\ next_leaf_to_the_right(rope, Leaves(rope)[Len(Leaves(rope))]).idx = None
====
